---- MODULE Spec2Model ----
(***************************************************************************)
(* Model of the extraction-to-storage pipeline of migiude_ai_v3:           *)
(*   services/project_service.py  project-code allocator, registration     *)
(*   db/sqlite_manager.py         relational store (projects table)        *)
(*   services/neo4j_service.py    knowledge-graph mirror                   *)
(*   parsers/corins_parser.py     extraction front end                     *)
(*                                                                         *)
(* Text is modelled at the character level: a string is a sequence of      *)
(* characters and a character is a TLA+ string naming it.  ASCII digits    *)
(* are "0".."9", full-width digits are "F0".."F9", and the Japanese        *)
(* characters the code's patterns mention are romanised:                   *)
(*   "Rei" "Wa"  (current era, Reiwa)    "Hei" "Sei" (previous era, Heisei) *)
(*   "Nen" "Do"  (fiscal-year suffix)                                      *)
(***************************************************************************)
EXTENDS Integers, Sequences, FiniteSets, TLC

VARIABLES
    nameSegs,   \* the text under test (a project name, a date, an address), as a sequence of segments
    graph,      \* the graph store: [nodes, edges]
    lastOp,     \* the last graph operation called, its arguments and its outcome
    dbSel,      \* the db_selection of the registration data source
    rows,       \* the rows of the projects table
    nextId,     \* the next AUTOINCREMENT id of the projects table
    folders,    \* the artifact folders that exist under data/
    reg,        \* per process: its registration call, position and outcome
    regCount,   \* the number of registration calls made so far
    storeVer,   \* history: the number of inserts and deletes of projects rows so far
    prevAlloc,  \* history: per prefix, the last code allocated and what followed it
    faults,     \* the number of graph calls that met a fault so far
    dbDirParent,\* the directory delete_project resolves folder paths against
    cfgFile,    \* the content of config/data_sources.json
    saveArgs    \* history: per row id, the arguments of the save_project call

regVars == <<rows, nextId, folders, reg, regCount, storeVer, prevAlloc, faults>>

\* The variables the specifications before SpecStore leave alone.
otherVars == <<dbDirParent, cfgFile, saveArgs>>

vars == <<nameSegs, graph, lastOp, dbSel, rows, nextId, folders, reg, regCount,
          storeVer, prevAlloc, faults, dbDirParent, cfgFile, saveArgs>>

----------------------------------------------------------------------------
(* Characters and strings *)

AsciiDigits == {"0", "1", "2", "3", "4", "5", "6", "7", "8", "9"}

FullWidthDigits == {"F0", "F1", "F2", "F3", "F4", "F5", "F6", "F7", "F8", "F9"}

\* str.maketrans of project_service.py:43: full-width digit -> ASCII digit,
\* every other character unchanged.
TranslateChar(c) ==
    CASE c = "F0" -> "0" [] c = "F1" -> "1" [] c = "F2" -> "2" [] c = "F3" -> "3"
      [] c = "F4" -> "4" [] c = "F5" -> "5" [] c = "F6" -> "6" [] c = "F7" -> "7"
      [] c = "F8" -> "8" [] c = "F9" -> "9" [] OTHER -> c

Translate(s) == [i \in 1..Len(s) |-> TranslateChar(s[i])]

\* The character class [full-width 0-9, 0-9] of the two era patterns.
IsEraDigit(c) == c \in AsciiDigits \cup FullWidthDigits

RECURSIVE Flatten(_)
Flatten(ss) == IF ss = <<>> THEN <<>> ELSE Head(ss) \o Flatten(Tail(ss))

Min(S) == CHOOSE x \in S : \A y \in S : x <= y

\* First index >= k of s that holds no era digit (Len(s)+1 when the digits run
\* to the end): where the greedy group ([digits]+) stops.
RECURSIVE DigitRunEnd(_, _)
DigitRunEnd(s, k) ==
    IF k > Len(s) \/ ~IsEraDigit(s[k]) THEN k ELSE DigitRunEnd(s, k + 1)

\* The pattern  c1 c2 ([digits]+) Nen Do  matches at position i of s.
EraMatchAt(s, i, c1, c2) ==
    /\ i + 1 <= Len(s)
    /\ s[i] = c1
    /\ s[i + 1] = c2
    /\ LET j == DigitRunEnd(s, i + 2)
       IN /\ j > i + 2
          /\ j + 1 <= Len(s)
          /\ s[j] = "Nen"
          /\ s[j + 1] = "Do"

NoMatch == <<"NoMatch">>

\* re.search(c1 c2 ([digits]+) Nen Do, s).group(1): the digits of the leftmost
\* match, NoMatch when the pattern occurs nowhere.
EraSearch(s, c1, c2) ==
    LET hits == {i \in 1..Len(s) : EraMatchAt(s, i, c1, c2)}
    IN IF hits = {} THEN NoMatch
       ELSE LET i == Min(hits)
            IN SubSeq(s, i + 2, DigitRunEnd(s, i + 2) - 1)

----------------------------------------------------------------------------
(* ProjectCodeAllocator: the fiscal-year prefix *)

\* A plausible slip: the previous-era pattern is tried first.
ExtractYearPrefixHeiseiFirst(project_name) ==
    LET heisei == EraSearch(project_name, "Hei", "Sei")
        reiwa == EraSearch(project_name, "Rei", "Wa")
    IN IF heisei # NoMatch THEN <<"H">> \o Translate(heisei)
       ELSE IF reiwa # NoMatch THEN <<"R">> \o Translate(reiwa)
       ELSE <<"X", "X">>

\* _extract_year_prefix
ExtractYearPrefix(project_name) ==
    LET reiwa == EraSearch(project_name, "Rei", "Wa")
        heisei == EraSearch(project_name, "Hei", "Sei")
    IN IF reiwa # NoMatch THEN <<"R">> \o Translate(reiwa)
       ELSE IF heisei # NoMatch THEN <<"H">> \o Translate(heisei)
       ELSE <<"X", "X">>

----------------------------------------------------------------------------
(* SemanticDecomposers (neo4j_service.py).  More romanised characters:      *)
(*   "To" "Fu" "Ken"  the prefecture suffixes      "Hok" "Kai" "Dou" Hokkaido *)
(*   "Shi" "Ku" "Machi" "Mura" "Gun"  the city/ward/town/village/county suffixes *)
(*   "Touten" the ideographic comma, "FComma" the full-width comma,        *)
(*   "FColon" the full-width colon, "SP" a space, "NL" a newline           *)

WhiteSpace == {"SP", "NL"}

PrefSuffix == {"To", "Fu", "Ken"}

CitySuffix == {"Shi", "Ku", "Machi", "Mura", "Gun"}

\* The characters the class [^ Touten , FComma \s] of the city pattern excludes.
CitySeparators == {"Touten", ",", "FComma"} \cup WhiteSpace

\* The separators of re.split(r"[, Touten \n]+") in _split_csv.
CsvSeparators == {",", "Touten", "NL"}

\* \d of a Python 3 str pattern matches every Unicode decimal digit.
IsDigit(c) == c \in AsciiDigits \cup FullWidthDigits

DigitVal(c) ==
    LET a == TranslateChar(c)
    IN CASE a = "0" -> 0 [] a = "1" -> 1 [] a = "2" -> 2 [] a = "3" -> 3
         [] a = "4" -> 4 [] a = "5" -> 5 [] a = "6" -> 6 [] a = "7" -> 7
         [] a = "8" -> 8 [] a = "9" -> 9

DigitChar(d) ==
    CASE d = 0 -> "0" [] d = 1 -> "1" [] d = 2 -> "2" [] d = 3 -> "3"
      [] d = 4 -> "4" [] d = 5 -> "5" [] d = 6 -> "6" [] d = 7 -> "7"
      [] d = 8 -> "8" [] d = 9 -> "9"

\* int(s) for a non-empty string of digits.
RECURSIVE CharsToInt(_)
CharsToInt(s) ==
    IF s = <<>> THEN 0
    ELSE 10 * CharsToInt(SubSeq(s, 1, Len(s) - 1)) + DigitVal(s[Len(s)])

\* str(n) for n >= 0.
RECURSIVE NatToChars(_)
NatToChars(n) ==
    IF n < 10 THEN <<DigitChar(n)>>
    ELSE Append(NatToChars(n \div 10), DigitChar(n % 10))

\* str(n), as the f-string "{n}" formats an int.
IntToChars(n) == IF n < 0 THEN <<"-">> \o NatToChars(0 - n) ELSE NatToChars(n)

\* str.strip(): leading and trailing whitespace removed.
RECURSIVE Strip(_)
Strip(s) ==
    IF s = <<>> THEN s
    ELSE IF s[1] \in WhiteSpace THEN Strip(Tail(s))
    ELSE IF s[Len(s)] \in WhiteSpace THEN Strip(SubSeq(s, 1, Len(s) - 1))
    ELSE s

\* Length of the match of (Hokkaido|.{2,3}[To Fu Ken]) at position i of s, 0 when
\* it does not match there.  The alternatives are tried in order and .{2,3} is
\* greedy; "." matches everything but a newline.
PrefMatchLen(s, i) ==
    IF i + 2 <= Len(s) /\ s[i] = "Hok" /\ s[i + 1] = "Kai" /\ s[i + 2] = "Dou" THEN 3
    ELSE IF /\ i + 3 <= Len(s)
            /\ \A k \in i..(i + 2) : s[k] # "NL"
            /\ s[i + 3] \in PrefSuffix THEN 4
    ELSE IF /\ i + 2 <= Len(s)
            /\ \A k \in i..(i + 1) : s[k] # "NL"
            /\ s[i + 2] \in PrefSuffix THEN 3
    ELSE 0

\* re.search of the prefecture pattern: group(1) of the leftmost match.
PrefSearch(s) ==
    LET hits == {i \in 1..Len(s) : PrefMatchLen(s, i) > 0}
    IN IF hits = {} THEN NoMatch
       ELSE LET i == Min(hits) IN SubSeq(s, i, i + PrefMatchLen(s, i) - 1)

\* _extract_prefecture
ExtractPrefecture(location) ==
    IF location = <<>> THEN <<>>
    ELSE LET m == PrefSearch(location) IN IF m = NoMatch THEN <<>> ELSE m

\* Last index of the run of non-separator characters that starts at k (k - 1
\* when s[k] is a separator or k is past the end).
RECURSIVE CityRunEnd(_, _)
CityRunEnd(s, k) ==
    IF k > Len(s) \/ s[k] \in CitySeparators THEN k - 1 ELSE CityRunEnd(s, k + 1)

\* End index of the match of [To Fu Ken]([^separators]*(Shi|Ku|Machi|Mura|Gun)) at
\* position i of s, 0 when it does not match there: the greedy class backtracks
\* to the last city suffix of the run.
CityMatchEnd(s, i) ==
    IF i <= Len(s) /\ s[i] \in PrefSuffix
    THEN LET ends == {j \in (i + 1)..CityRunEnd(s, i + 1) : s[j] \in CitySuffix}
         IN IF ends = {} THEN 0 ELSE CHOOSE j \in ends : \A k \in ends : k <= j
    ELSE 0

CitySearch(s) ==
    LET hits == {i \in 1..Len(s) : CityMatchEnd(s, i) > 0}
    IN IF hits = {} THEN NoMatch
       ELSE LET i == Min(hits) IN SubSeq(s, i + 1, CityMatchEnd(s, i))

\* _extract_region_parts
ExtractRegionParts(location) ==
    IF location = <<>> THEN <<>>
    ELSE LET loc == Strip(location)
             pref_match == PrefSearch(loc)
             city_match == CitySearch(loc)
             parts1 == IF pref_match # NoMatch THEN <<pref_match>> ELSE <<>>
         IN IF city_match # NoMatch
            THEN LET city == Strip(city_match)
                 IN IF city # <<>> /\ (pref_match = NoMatch \/ city # pref_match)
                    THEN Append(parts1, city)
                    ELSE parts1
            ELSE parts1

\* The pattern (\d{4})[/-](\d{1,2}) matches at position i of s.
YearMonthMatchAt(s, i) ==
    /\ i + 5 <= Len(s)
    /\ \A k \in i..(i + 3) : IsDigit(s[k])
    /\ s[i + 4] \in {"/", "-"}
    /\ IsDigit(s[i + 5])

\* First index >= k of s that holds no digit.
RECURSIVE DigitsEnd(_, _)
DigitsEnd(s, k) == IF k > Len(s) \/ ~IsDigit(s[k]) THEN k ELSE DigitsEnd(s, k + 1)

\* The pattern  c1 c2 (\d+) Nen  matches at position i of s.
EraYearMatchAt(s, i, c1, c2) ==
    /\ i + 1 <= Len(s)
    /\ s[i] = c1
    /\ s[i + 1] = c2
    /\ LET j == DigitsEnd(s, i + 2) IN j > i + 2 /\ j <= Len(s) /\ s[j] = "Nen"

\* re.search(c1 c2 (\d+) Nen, s).group(1)
EraYearSearch(s, c1, c2) ==
    LET hits == {i \in 1..Len(s) : EraYearMatchAt(s, i, c1, c2)}
    IN IF hits = {} THEN NoMatch
       ELSE LET i == Min(hits) IN SubSeq(s, i + 2, DigitsEnd(s, i + 2) - 1)

ReiwaOffset == 2018

HeiseiOffset == 1988

FiscalYearStartMonth == 4

\* A plausible slip: the era patterns are tried before the numeric pattern.
ExtractFiscalYearEraFirst(start_date) ==
    IF start_date = <<>> THEN <<>>
    ELSE LET ym == {i \in 1..Len(start_date) : YearMonthMatchAt(start_date, i)}
             reiwa == EraYearSearch(start_date, "Rei", "Wa")
             heisei == EraYearSearch(start_date, "Hei", "Sei")
         IN IF reiwa # NoMatch
            THEN IntToChars(ReiwaOffset + CharsToInt(reiwa)) \o <<"Nen", "Do">>
            ELSE IF heisei # NoMatch
            THEN IntToChars(HeiseiOffset + CharsToInt(heisei)) \o <<"Nen", "Do">>
            ELSE IF ym # {}
            THEN LET i == Min(ym)
                     year == CharsToInt(SubSeq(start_date, i, i + 3))
                     mlen == IF i + 6 <= Len(start_date) /\ IsDigit(start_date[i + 6])
                             THEN 2 ELSE 1
                     month == CharsToInt(SubSeq(start_date, i + 5, i + 4 + mlen))
                 IN IntToChars(IF month < FiscalYearStartMonth THEN year - 1 ELSE year)
                        \o <<"Nen", "Do">>
            ELSE <<>>

\* _extract_fiscal_year
ExtractFiscalYear(start_date) ==
    IF start_date = <<>> THEN <<>>
    ELSE LET ym == {i \in 1..Len(start_date) : YearMonthMatchAt(start_date, i)}
             reiwa == EraYearSearch(start_date, "Rei", "Wa")
             heisei == EraYearSearch(start_date, "Hei", "Sei")
         IN IF ym # {}
            THEN LET i == Min(ym)
                     year == CharsToInt(SubSeq(start_date, i, i + 3))
                     mlen == IF i + 6 <= Len(start_date) /\ IsDigit(start_date[i + 6])
                             THEN 2 ELSE 1
                     month == CharsToInt(SubSeq(start_date, i + 5, i + 4 + mlen))
                 IN IntToChars(IF month < FiscalYearStartMonth THEN year - 1 ELSE year)
                        \o <<"Nen", "Do">>
            ELSE IF reiwa # NoMatch
            THEN IntToChars(ReiwaOffset + CharsToInt(reiwa)) \o <<"Nen", "Do">>
            ELSE IF heisei # NoMatch
            THEN IntToChars(HeiseiOffset + CharsToInt(heisei)) \o <<"Nen", "Do">>
            ELSE <<>>

\* re.split on runs of csv separators: the pieces between them (empty pieces at
\* the ends included, as re.split returns them).
RECURSIVE SplitOn(_, _, _)
SplitOn(s, seps, cur) ==
    IF s = <<>> THEN <<cur>>
    ELSE IF s[1] \in seps
    THEN <<cur>> \o SplitOn(Tail(s), seps, <<>>)
    ELSE SplitOn(Tail(s), seps, Append(cur, s[1]))

\* [item.strip() for item in items if item.strip()]
RECURSIVE StripNonEmpty(_)
StripNonEmpty(items) ==
    IF items = <<>> THEN <<>>
    ELSE LET h == Strip(Head(items))
         IN (IF h = <<>> THEN <<>> ELSE <<h>>) \o StripNonEmpty(Tail(items))

----------------------------------------------------------------------------
(* Python values.  A value is a record [t, v]: None, a str (sequence of      *)
(* characters), a list (sequence of values), a dict (function from key to    *)
(* value) or an int.                                                         *)

PyNone == [t |-> "none", v |-> <<>>]

PyStr(s) == [t |-> "str", v |-> s]

PyList(l) == [t |-> "list", v |-> l]

PyDict(d) == [t |-> "dict", v |-> d]

PyInt(n) == [t |-> "int", v |-> n]

PyBool(b) == [t |-> "bool", v |-> b]

EmptyStr == PyStr(<<>>)

EmptyDict == [k \in {} |-> PyNone]

\* bool(v)
Truthy(val) ==
    CASE val.t = "none" -> FALSE
      [] val.t = "str" -> val.v # <<>>
      [] val.t = "list" -> val.v # <<>>
      [] val.t = "dict" -> DOMAIN val.v # {}
      [] val.t = "int" -> val.v # 0
      [] val.t = "bool" -> val.v

\* a or b
PyOr(a, b) == IF Truthy(a) THEN a ELSE b

\* d.get(k, default) on the mapping d
Get(d, k, default) == IF k \in DOMAIN d THEN d[k] ELSE default

\* d[k] = val
Put(d, k, val) == [x \in DOMAIN d \cup {k} |-> IF x = k THEN val ELSE d[x]]

\* json.dumps / json.loads: the text of a value, and the value of a text.
JsonDumps(val) == [t |-> "json", v |-> val]

JsonLoads(text) == text.v

\* _split_csv: a list of non-empty stripped strings from None, a list of strings
\* or a delimited string (str(item) of a str item is the item).
SplitCsv(value) ==
    CASE value.t = "none" -> <<>>
      [] value.t = "list" ->
            StripNonEmpty([i \in 1..Len(value.v) |-> value.v[i].v])
      [] value.t = "str" ->
            IF Strip(value.v) = <<>> THEN <<>>
            ELSE StripNonEmpty(SplitOn(Strip(value.v), CsvSeparators, <<>>))

----------------------------------------------------------------------------
(* The property graph.  A graph is [nodes, edges]: nodes maps a node identity *)
(* [label, key, copy] to the node's properties, where key is the value of the *)
(* node's merge key (sqlite_id for a Project, name for a dimension node) and  *)
(* copy tells apart nodes that agree on label and key; edges is a set of      *)
(* [src, type, dst, role, copy], copy telling apart parallel edges.          *)

EmptyGraph == [nodes |-> [n \in {} |-> EmptyDict], edges |-> {}]

NodeIds(G) == DOMAIN G.nodes

\* MATCH (n:label {key})
MatchNodes(G, label, key) == {n \in NodeIds(G) : n.label = label /\ n.key = key}

\* CREATE (n:label {key}) with the given properties
CreateNode(G, label, key, props) ==
    LET used == {n.copy : n \in MatchNodes(G, label, key)}
        id == [label |-> label, key |-> key,
               copy |-> Min({c \in 0..Cardinality(used) : c \notin used})]
    IN [G EXCEPT !.nodes = (id :> props) @@ @]

\* MERGE (n:label {key}): created only when no node matches
MergeNode(G, label, key) ==
    IF MatchNodes(G, label, key) = {} THEN CreateNode(G, label, key, EmptyDict) ELSE G

EdgesBetween(G, src, type, dst, role) ==
    {e \in G.edges : e.src = src /\ e.type = type /\ e.dst = dst /\ e.role = role}

\* CREATE (src)-[:type {role}]->(dst) for every <<src, dst>> of pairs
RECURSIVE CreateEdgePairs(_, _, _, _)
CreateEdgePairs(G, pairs, type, role) ==
    IF pairs = {} THEN G
    ELSE LET pr == CHOOSE x \in pairs : TRUE
             used == {e.copy : e \in EdgesBetween(G, pr[1], type, pr[2], role)}
             edge == [src |-> pr[1], type |-> type, dst |-> pr[2], role |-> role,
                      copy |-> Min({c \in 0..Cardinality(used) : c \notin used})]
         IN CreateEdgePairs([G EXCEPT !.edges = @ \cup {edge}], pairs \ {pr}, type, role)

\* A plausible slip: CREATE where MERGE is meant, an edge is added between every
\* pair whether or not one exists.
CreateEdges(G, srcs, type, dsts, role) == CreateEdgePairs(G, srcs \X dsts, type, role)

\* MERGE (src)-[:type {role}]->(dst) for every pair of srcs x dsts: an edge is
\* created only between the pairs that have none.
MergeEdges(G, srcs, type, dsts, role) ==
    CreateEdgePairs(G,
        {pr \in srcs \X dsts : EdgesBetween(G, pr[1], type, pr[2], role) = {}},
        type, role)

\* A plausible slip: a property that is already set keeps its value.
SetPropsIfAbsent(G, ids, props) ==
    [G EXCEPT !.nodes = [n \in ids |-> G.nodes[n] @@ props] @@ @]

\* SET n.k = props[k] for every k, on every node of ids
SetProps(G, ids, props) ==
    [G EXCEPT !.nodes = [n \in ids |-> props @@ G.nodes[n]] @@ @]

\* A plausible slip: the delete cascades to the nodes the deleted ones point to.
DetachDeleteCascade(G, ids) ==
    LET all == ids \cup {e.dst : e \in {x \in G.edges : x.src \in ids}}
    IN [nodes |-> [n \in NodeIds(G) \ all |-> G.nodes[n]],
        edges |-> {e \in G.edges : e.src \notin all /\ e.dst \notin all}]

\* DETACH DELETE the nodes of ids
DetachDelete(G, ids) ==
    [nodes |-> [n \in NodeIds(G) \ ids |-> G.nodes[n]],
     edges |-> {e \in G.edges : e.src \notin ids /\ e.dst \notin ids}]

\* DELETE the nodes of ids (the statement names only nodes without an edge)
DeleteNodes(G, ids) == [G EXCEPT !.nodes = [n \in NodeIds(G) \ ids |-> G.nodes[n]]]

\* NOT (n)--()
Isolated(G, n) == \A e \in G.edges : e.src # n /\ e.dst # n

\* The role of an edge that carries no property.
NoRole == [t |-> "norole", v |-> <<>>]

\* The key of the Project node of relational id sid
ProjectKey(sid) == IntToChars(sid)

----------------------------------------------------------------------------
(* RelationalStore (db/sqlite_manager.py): the rows of the projects table.   *)
(* A row maps each column to a value, PyNone standing for NULL.              *)

FlatColumns ==
    {"corins_id", "project_name", "contract_amount", "start_date", "end_date",
     "location", "client_name", "contractor_name", "field", "summary"}

Columns ==
    {"id", "project_type", "project_code", "work_types", "engineers", "raw_json",
     "folder_path", "created_at", "saved_to_neo4j", "saved_to_chroma"} \cup FlatColumns

\* The clock reading datetime.now().isoformat(); the clock itself is not modelled.
Timestamp == PyStr(<<"now">>)

\* The columns CREATE TABLE and ALTER TABLE declare INTEGER; the others are TEXT.
IntegerColumns == {"id", "contract_amount", "saved_to_neo4j", "saved_to_chroma"}

\* The value SQLite stores when v is bound to column c: in a TEXT column an
\* integer becomes its decimal text, in an INTEGER column a text of ASCII
\* digits becomes the integer; NULL and every other value are stored as bound.
Stored(c, v) ==
    CASE v.t = "int" /\ c \notin IntegerColumns -> PyStr(IntToChars(v.v))
      [] v.t = "str" /\ c \in IntegerColumns /\ v.v # <<>>
           /\ (\A i \in 1..Len(v.v) : v.v[i] \in AsciiDigits) -> PyInt(CharsToInt(v.v))
      [] OTHER -> v

\* The columns save_project binds a value of the mapping to as it is.
BoundColumns(sqlite_mode) ==
    IF sqlite_mode = "json" THEN {"project_code", "folder_path"}
    ELSE {"project_code", "folder_path"} \cup FlatColumns

\* sqlite3 raises on a parameter that is a list or a dict: save_project raises
\* before its commit and inserts nothing.
SaveProjectRaises(data, sqlite_mode) ==
    \E c \in BoundColumns(sqlite_mode) : Get(data, c, PyNone).t \in {"list", "dict"}

\* A plausible slip: the raw mapping is bound in every mode.
InsertedRowRawAlways(data, project_type, sqlite_mode, pk) ==
    LET raw_json == JsonDumps(PyDict(data))
        work_types_str == JsonDumps(PyOr(Get(data, "work_types", PyNone), PyList(<<>>)))
        engineers_str == JsonDumps(PyOr(Get(data, "engineers", PyNone), PyList(<<>>)))
    IN [c \in Columns |->
          CASE c = "id" -> PyInt(pk)
            [] c = "project_type" -> project_type
            [] c \in {"project_code", "folder_path"} -> Stored(c, Get(data, c, PyNone))
            [] c = "created_at" -> Timestamp
            [] c \in {"saved_to_neo4j", "saved_to_chroma"} -> PyInt(0)
            [] c = "raw_json" -> raw_json
            [] c = "work_types" -> IF sqlite_mode = "json" THEN PyNone ELSE work_types_str
            [] c = "engineers" -> IF sqlite_mode = "json" THEN PyNone ELSE engineers_str
            [] c \in FlatColumns ->
                  IF sqlite_mode = "json" THEN PyNone ELSE Stored(c, Get(data, c, PyNone))]

\* The row that save_project inserts under the AUTOINCREMENT id pk.  data is the
\* parser's mapping, sqlite_mode one of "fixed", "json", "both".
InsertedRow(data, project_type, sqlite_mode, pk) ==
    LET raw_json == JsonDumps(PyDict(data))
        work_types_str == JsonDumps(PyOr(Get(data, "work_types", PyNone), PyList(<<>>)))
        engineers_str == JsonDumps(PyOr(Get(data, "engineers", PyNone), PyList(<<>>)))
    IN [c \in Columns |->
          CASE c = "id" -> PyInt(pk)
            [] c = "project_type" -> project_type
            [] c \in {"project_code", "folder_path"} -> Stored(c, Get(data, c, PyNone))
            [] c = "created_at" -> Timestamp
            [] c \in {"saved_to_neo4j", "saved_to_chroma"} -> PyInt(0)
            [] c = "raw_json" -> IF sqlite_mode = "fixed" THEN PyNone ELSE raw_json
            [] c = "work_types" -> IF sqlite_mode = "json" THEN PyNone ELSE work_types_str
            [] c = "engineers" -> IF sqlite_mode = "json" THEN PyNone ELSE engineers_str
            [] c \in FlatColumns ->
                  IF sqlite_mode = "json" THEN PyNone ELSE Stored(c, Get(data, c, PyNone))]

\* A plausible slip: the raw mapping is decoded but never merged into the dict.
RowToDictNoMerge(row) ==
    LET d1 == [c \in Columns |->
                 IF c \in {"work_types", "engineers"} /\ row[c].t = "json"
                 THEN JsonLoads(row[c]) ELSE row[c]]
        raw == row["raw_json"]
    IN IF raw.t = "json" /\ JsonLoads(raw).t = "dict"
       THEN Put(d1, "raw_json", PyDict(JsonLoads(raw).v))
       ELSE d1

\* _row_to_dict
RowToDict(row) ==
    LET d1 == [c \in Columns |->
                 IF c \in {"work_types", "engineers"} /\ row[c].t = "json"
                 THEN JsonLoads(row[c]) ELSE row[c]]
        raw == row["raw_json"]
    IN IF raw.t = "json" /\ JsonLoads(raw).t = "dict"
       THEN LET parsed == JsonLoads(raw).v
                d2 == Put(d1, "raw_json", PyDict(parsed))
            IN IF ~Truthy(d2["project_name"]) /\ DOMAIN parsed # {}
               THEN [k \in DOMAIN d2 \cup (DOMAIN parsed \ {"id", "created_at"}) |->
                        IF /\ k \in DOMAIN parsed \ {"id", "created_at"}
                           /\ Get(d2, k, PyNone) = PyNone
                        THEN parsed[k] ELSE d2[k]]
               ELSE d2
       ELSE d1

\* Is the character string pre a prefix of s
StartsWith(s, pre) == Len(pre) <= Len(s) /\ SubSeq(s, 1, Len(pre)) = pre

\* ASCII case folding of SQLite's LIKE; the model's codes hold no lower-case letter.
LikeFold(c) == CASE c = "r" -> "R" [] c = "h" -> "H" [] c = "x" -> "X" [] OTHER -> c

\* text LIKE pre || '%' where pre holds no wildcard: a case-folded prefix match,
\* false on NULL.
LikePrefix(text, pre) ==
    /\ text.t = "str"
    /\ StartsWith([i \in 1..Len(text.v) |-> LikeFold(text.v[i])],
                  [i \in 1..Len(pre) |-> LikeFold(pre[i])])

\* A plausible slip: the count is not restricted to the prefix.
CountAllProjects(table, prefix) == Cardinality(table)

\* get_project_count_by_year_prefix: SELECT COUNT(*) ... WHERE project_code LIKE 'prefix-%'
CountByYearPrefix(table, prefix) ==
    Cardinality({r \in table : LikePrefix(r["project_code"], prefix \o <<"-">>)})

\* The format spec 02d: at least two digits, zero-padded.
Pad2(n) == IF n < 10 THEN <<"0">> \o NatToChars(n) ELSE NatToChars(n)

\* _generate_project_code
GenerateProjectCode(table, project_name) ==
    LET prefix == ExtractYearPrefix(project_name)
        count == CountByYearPrefix(table, prefix)
        seq == count + 1
    IN prefix \o <<"-">> \o Pad2(seq)

\* get_project_by_id: the dict of the row, PyNone when there is none
GetProjectById(table, pk) ==
    LET hit == {r \in table : r["id"] = PyInt(pk)}
    IN IF hit = {} THEN PyNone ELSE PyDict(RowToDict(CHOOSE r \in hit : TRUE))

----------------------------------------------------------------------------
(* GraphSynchronizer (services/neo4j_service.py) *)

\* _normalize_project_data: the raw mapping when the project carries one, with
\* the project's own columns filling what the raw mapping lacks; else the project.
NormalizeProjectData(project) ==
    LET raw == Get(project, "raw_json", PyNone)
        Fill(d, k) == Put(d, k, PyOr(Get(d, k, PyNone), Get(project, k, EmptyStr)))
    IN IF Truthy(raw) /\ (raw.t = "dict" \/ (raw.t = "json" /\ JsonLoads(raw).t = "dict"))
       THEN LET data0 == IF raw.t = "json" THEN JsonLoads(raw).v ELSE raw.v
                data1 == Fill(data0, "project_name")
                data2 == Put(data1, "project_code", Get(project, "project_code", EmptyStr))
                data3 == Fill(data2, "client_name")
                data4 == Fill(data3, "contractor_name")
                data5 == Fill(data4, "location")
                data6 == Fill(data5, "field")
                data7 == Fill(data6, "start_date")
            IN Fill(data7, "end_date")
       ELSE project

\* The statements of the three public operations, as records.  op is
\*   "merge_project":   MERGE (p:Project {sqlite_id: sid}) SET p += props
\*   "merge_dim":       MERGE (c:label {name: key}) WITH c MATCH (p:Project {sqlite_id: sid})
\*                      MERGE (p)-[:etype {role}]->(c)
\*   "merge_link":      MERGE (a:label {name: key}) MERGE (b:label2 {name: key2})
\*                      MERGE (a)-[:etype]->(b)
\*   "set_project":     MATCH (p:Project {sqlite_id: sid}) SET p += props
\*   "set_dim":         MATCH (c:label {name: key}) SET c += props
\*   "lookup":          MATCH (p:Project {sqlite_id: sid}) RETURN p
\*   "create_doc":      MATCH (p:Project {sqlite_id: sid}) CREATE (d:DesignDocument props)
\*                      MERGE (p)-[:HAS_DESIGN_DOC]->(d)
\*   "delete_docs":     MATCH (p:Project {sqlite_id: sid})-[:HAS_DESIGN_DOC]->(d:DesignDocument)
\*                      DETACH DELETE d
\*   "delete_project":  MATCH (p:Project {sqlite_id: sid}) DETACH DELETE p
\*   "gc":              MATCH (n) WHERE NOT (n)--() AND (n:<a dimension label>) DELETE n
StMergeProject(sid, props) ==
    [op |-> "merge_project", label |-> "Project", key |-> <<>>, sid |-> sid,
     etype |-> "", role |-> NoRole, label2 |-> "", key2 |-> <<>>, props |-> props]

StMergeDim(label, key, sid, etype, role) ==
    [op |-> "merge_dim", label |-> label, key |-> key, sid |-> sid,
     etype |-> etype, role |-> role, label2 |-> "", key2 |-> <<>>, props |-> EmptyDict]

StMergeLink(label, key, etype, label2, key2) ==
    [op |-> "merge_link", label |-> label, key |-> key, sid |-> 0,
     etype |-> etype, role |-> NoRole, label2 |-> label2, key2 |-> key2,
     props |-> EmptyDict]

StSetProject(sid, props) ==
    [op |-> "set_project", label |-> "Project", key |-> <<>>, sid |-> sid,
     etype |-> "", role |-> NoRole, label2 |-> "", key2 |-> <<>>, props |-> props]

StSetDim(label, key, props) ==
    [op |-> "set_dim", label |-> label, key |-> key, sid |-> 0,
     etype |-> "", role |-> NoRole, label2 |-> "", key2 |-> <<>>, props |-> props]

StCreateDoc(sid, props) ==
    [op |-> "create_doc", label |-> "DesignDocument", key |-> <<>>, sid |-> sid,
     etype |-> "HAS_DESIGN_DOC", role |-> NoRole, label2 |-> "", key2 |-> <<>>,
     props |-> props]

StDelete(op, sid) ==
    [op |-> op, label |-> "", key |-> <<>>, sid |-> sid,
     etype |-> "", role |-> NoRole, label2 |-> "", key2 |-> <<>>, props |-> EmptyDict]

\* The labels the garbage collection of delete_project_from_neo4j names.
GcLabels ==
    {"Material", "Method", "Regulation", "WorkType", "BudgetCategory", "Field", "Region",
     "FiscalYear", "Client", "Contractor", "Engineer", "Route", "ContractMethod",
     "PermitType", "BidCategory", "ConstructionArea", "ConstructionMethod"}

\* CREATE one DesignDocument per Project of ps and the edge to it.
RECURSIVE CreateDocs(_, _, _)
CreateDocs(G, ps, props) ==
    IF ps = {} THEN G
    ELSE LET pn == CHOOSE x \in ps : TRUE
             G1 == CreateNode(G, "DesignDocument", <<>>, props)
             d == CHOOSE n \in NodeIds(G1) : n \notin NodeIds(G)
         IN CreateDocs(MergeEdges(G1, {pn}, "HAS_DESIGN_DOC", {d}, NoRole), ps \ {pn}, props)

\* A plausible slip: the garbage collection names no label.
GcNodesAnyLabel(G) == {n \in NodeIds(G) : Isolated(G, n)}

\* The nodes the garbage collection deletes.
GcNodes(G) == {n \in NodeIds(G) : Isolated(G, n) /\ n.label \in GcLabels}

\* The effect of one statement on the graph.
ApplyStmt(G, st) ==
    CASE st.op = "merge_project" ->
            LET G1 == MergeNode(G, "Project", ProjectKey(st.sid))
            IN SetProps(G1, MatchNodes(G1, "Project", ProjectKey(st.sid)), st.props)
      [] st.op = "merge_dim" ->
            LET G1 == MergeNode(G, st.label, st.key)
            IN MergeEdges(G1, MatchNodes(G1, "Project", ProjectKey(st.sid)), st.etype,
                          MatchNodes(G1, st.label, st.key), st.role)
      [] st.op = "merge_link" ->
            LET G1 == MergeNode(G, st.label, st.key)
                G2 == MergeNode(G1, st.label2, st.key2)
            IN MergeEdges(G2, MatchNodes(G2, st.label, st.key), st.etype,
                          MatchNodes(G2, st.label2, st.key2), NoRole)
      [] st.op = "set_project" ->
            SetProps(G, MatchNodes(G, "Project", ProjectKey(st.sid)), st.props)
      [] st.op = "set_dim" ->
            SetProps(G, MatchNodes(G, st.label, st.key), st.props)
      [] st.op = "create_doc" ->
            CreateDocs(G, MatchNodes(G, "Project", ProjectKey(st.sid)), st.props)
      [] st.op = "delete_docs" ->
            DetachDelete(G,
                {e.dst : e \in {x \in G.edges :
                    /\ x.src \in MatchNodes(G, "Project", ProjectKey(st.sid))
                    /\ x.type = "HAS_DESIGN_DOC"
                    /\ x.dst.label = "DesignDocument"}})
      [] st.op = "delete_project" ->
            DetachDelete(G, MatchNodes(G, "Project", ProjectKey(st.sid)))
      [] st.op = "gc" -> DeleteNodes(G, GcNodes(G))
      [] st.op = "lookup" -> G

\* The store rejects a MERGE of a relationship on a null property value.
StmtRejected(st) == st.op = "merge_dim" /\ st.role = PyNone

\* The graph after the first n statements of stmts.
RECURSIVE RunStatements(_, _, _)
RunStatements(G, stmts, n) ==
    IF n = 0 \/ stmts = <<>> THEN G
    ELSE LET G1 == ApplyStmt(G, Head(stmts))
         IN IF G1 = G THEN RunStatements(G, Tail(stmts), n - 1)
            ELSE RunStatements(G1, Tail(stmts), n - 1)

\* Index of the first ASCII or full-width colon of s, 0 when it holds none.
FirstColon(s) ==
    LET hits == {i \in 1..Len(s) : s[i] \in {":", "FColon"}}
    IN IF hits = {} THEN 0 ELSE Min(hits)

\* The default role label of an engineer.
DefaultRole == PyStr(<<"Gijutsusha">>)

\* One pass of the engineers loop: the HAS_ENGINEER statement of one entry, none
\* when the entry is skipped.
EngineerStatement(eng, sid) ==
    LET name == CASE eng.t = "dict" -> Get(eng.v, "name", EmptyStr)
                  [] eng.t = "str" ->
                        IF FirstColon(eng.v) = 0 THEN eng
                        ELSE PyStr(Strip(SubSeq(eng.v, FirstColon(eng.v) + 1, Len(eng.v))))
                  [] OTHER -> PyNone
        role == CASE eng.t = "dict" -> Get(eng.v, "role", DefaultRole)
                  [] eng.t = "str" ->
                        IF FirstColon(eng.v) = 0 THEN DefaultRole
                        ELSE PyStr(Strip(SubSeq(eng.v, 1, FirstColon(eng.v) - 1)))
                  [] OTHER -> PyNone
    IN IF eng.t \in {"dict", "str"} /\ Truthy(name)
       THEN <<StMergeDim("Engineer", name.v, sid, "HAS_ENGINEER", role)>>
       ELSE <<>>

RECURSIVE EngineerStatements(_, _)
EngineerStatements(engineers, sid) ==
    IF engineers = <<>> THEN <<>>
    ELSE EngineerStatement(Head(engineers), sid) \o EngineerStatements(Tail(engineers), sid)

\* One statement per name of names: the dimension node and the Project's edge to it.
RECURSIVE DimStatements(_, _, _, _)
DimStatements(label, names, sid, etype) ==
    IF names = <<>> THEN <<>>
    ELSE <<StMergeDim(label, Head(names), sid, etype, NoRole)>>
            \o DimStatements(label, Tail(names), sid, etype)

\* The statement of a single-valued field: none when the value is falsy.
FieldStatement(label, value, sid, etype) ==
    IF Truthy(value) THEN <<StMergeDim(label, value.v, sid, etype, NoRole)>> ELSE <<>>

\* The truthy items of a list of strings, as strings.
RECURSIVE TruthyItems(_)
TruthyItems(items) ==
    IF items = <<>> THEN <<>>
    ELSE (IF Truthy(Head(items)) THEN <<Head(items).v>> ELSE <<>>) \o TruthyItems(Tail(items))

\* for eng in engineers raises TypeError unless engineers is iterable.
EngineersRaise(data) ==
    Get(data, "engineers", PyList(<<>>)).t \in {"none", "int"}

\* The statements save_project_to_neo4j runs for the project, in order, up to the
\* point where its own code raises (the engineers loop).
SaveProjectStatements(project) ==
    LET data == NormalizeProjectData(project)
        sid == project["id"].v
        Val(k) == Get(data, k, EmptyStr)
        client == Val("client_name")
        contractor == Val("contractor_name")
        location == Val("location")
        pref == IF Truthy(location) THEN ExtractPrefecture(location.v) ELSE <<>>
        engineers0 == Get(data, "engineers", PyList(<<>>))
        engineers == IF engineers0.t = "str"
                     THEN [i \in 1..Len(SplitCsv(engineers0)) |-> PyStr(SplitCsv(engineers0)[i])]
                     ELSE engineers0.v
        work_types_raw == Val("work_types")
        work_types == IF SplitCsv(work_types_raw) = <<>> /\ work_types_raw.t = "list"
                      THEN TruthyItems(work_types_raw.v)
                      ELSE SplitCsv(work_types_raw)
        region_parts == IF Truthy(location) THEN ExtractRegionParts(location.v) ELSE <<>>
        start_date == Val("start_date")
        fy == IF Truthy(start_date) THEN ExtractFiscalYear(start_date.v) ELSE <<>>
        methods0 == Get(data, "construction_methods", PyList(<<>>))
        methods == IF methods0.t \in {"str", "list"} THEN SplitCsv(methods0) ELSE <<>>
        head ==
            <<StMergeProject(sid,
                [name |-> Val("project_name"),
                 project_code |-> PyOr(Val("project_code"), Get(project, "project_code", EmptyStr)),
                 corins_id |-> Val("corins_id"),
                 contract_amount |-> Val("contract_amount"),
                 start_date |-> Val("start_date"),
                 end_date |-> Val("end_date"),
                 location |-> Val("location"),
                 summary |-> Val("summary"),
                 raw_json |-> JsonDumps(PyDict(data))])>>
            \o FieldStatement("Client", client, sid, "ORDERED_BY")
            \o (IF Truthy(client) /\ pref # <<>>
                THEN <<StMergeLink("Client", client.v, "MANAGES", "Region", pref)>>
                ELSE <<>>)
            \o FieldStatement("Contractor", contractor, sid, "CONTRACTED_BY")
        rest ==
            EngineerStatements(engineers, sid)
            \o DimStatements("WorkType", work_types, sid, "HAS_WORK_TYPE")
            \o FieldStatement("Field", Val("field"), sid, "IN_FIELD")
            \o DimStatements("Region", region_parts, sid, "LOCATED_IN")
            \o (IF Len(region_parts) >= 2
                THEN <<StMergeLink("Region", region_parts[2], "PART_OF",
                                   "Region", region_parts[1])>>
                ELSE <<>>)
            \o (IF fy # <<>> THEN <<StMergeDim("FiscalYear", fy, sid, "IN_FISCAL_YEAR", NoRole)>>
                ELSE <<>>)
            \o FieldStatement("Route", Val("target_route_name"), sid, "ON_ROUTE")
            \o FieldStatement("ContractMethod", Val("contract_method"), sid, "CONTRACTED_BY")
            \o FieldStatement("PermitType", Val("construction_permit_type"), sid, "REQUIRES_PERMIT")
            \o FieldStatement("BidCategory", Val("bid_qualification_category"), sid,
                              "IN_BID_CATEGORY")
            \o FieldStatement("ConstructionArea", Val("construction_area"), sid, "IN_AREA_TYPE")
            \o DimStatements("ConstructionMethod", methods, sid, "USES_METHOD")
            \o <<StSetProject(sid,
                  [night_work |-> Val("night_work"),
                   traffic_regulation |-> Val("traffic_regulation"),
                   road_traffic_volume |-> Val("road_traffic_volume"),
                   traffic_control_method |-> Val("traffic_control_method"),
                   construction_area |-> Val("construction_area"),
                   order_type |-> Val("order_type"),
                   coordinates |-> PyOr(PyOr(Val("coordinates"), Val("start_location_coordinates")),
                                        Val("end_location_coordinates")),
                   construction_permit_number |-> Val("construction_permit_number")])>>
            \o (IF Truthy(contractor)
                THEN <<StSetDim("Contractor", contractor.v,
                         [contractor_id |-> Val("contractor_id"),
                          address |-> Val("office_address"),
                          tel |-> Val("office_tel"),
                          fax |-> Val("office_fax"),
                          permit_number |-> Val("construction_permit_number")])>>
                ELSE <<>>)
            \o (IF Truthy(client)
                THEN <<StSetDim("Client", client.v,
                         [address |-> Val("ordering_agency_address"),
                          tel |-> Val("ordering_agency_tel"),
                          postal_code |-> Val("ordering_agency_postal_code")])>>
                ELSE <<>>)
    IN IF EngineersRaise(data) THEN head ELSE head \o rest

\* The first index >= k of s holding no character of class.
RECURSIVE RunEnd(_, _, _)
RunEnd(s, k, class) ==
    IF k > Len(s) \/ s[k] \notin class THEN k ELSE RunEnd(s, k + 1, class)

\* The classes of the quantity pattern [\d,.]+\s*[a-zA-Z m m2 m3 t]*$ : "m" and "t"
\* stand for the ASCII letters, "Fm" "M2" "M3" "Ft" for the full-width unit signs.
QtyChars == AsciiDigits \cup FullWidthDigits \cup {",", "."}

UnitChars == {"m", "t", "Fm", "M2", "M3", "Ft"}

\* The quantity pattern matches from position i of s to its end.
QtyMatchAt(s, i) ==
    LET a == RunEnd(s, i, QtyChars)
    IN a > i /\ RunEnd(s, RunEnd(s, a, WhiteSpace), UnitChars) = Len(s) + 1

\* re.sub(quantity pattern, "", mat).strip(): the material's name without its
\* trailing quantity and unit.
MaterialName(mat) ==
    LET hits == {i \in 1..Len(mat) : QtyMatchAt(mat, i)}
    IN IF hits = {} THEN Strip(mat) ELSE Strip(SubSeq(mat, 1, Min(hits) - 1))

\* kw in line
Contains(line, kw) ==
    \E i \in 1..Len(line) : i + Len(kw) - 1 <= Len(line) /\ SubSeq(line, i, i + Len(kw) - 1) = kw

\* method_keywords: kouhou, sekou, dasetsu, ten-atsu, chuunyuu, fukitsuke, sessaku,
\* overlay, precast
MethodKeywords ==
    { <<"Kou", "Hou">>, <<"Se", "Kou">>, <<"Da", "Setsu">>, <<"Ten", "Atsu">>,
      <<"Chuu", "Nyuu">>, <<"Fuki", "Tsuke">>, <<"Kiri", "Saku">>,
      <<"kO", "k-", "kBa", "k-", "kRe", "kI">>,
      <<"kPu", "kRe", "kKi", "kya", "kSu", "kTo">> }

\* reg_keywords: hou, kisoku, kijun, shishin, kokuji, jourei, shourei, tsuutatsu, youryou
RegKeywords ==
    { <<"Hou">>, <<"Ki", "Soku">>, <<"Moto", "Jun">>, <<"Yubi", "Shin">>, <<"Koku", "Ji">>,
      <<"Jou", "Tatoe">>, <<"Shou", "Rei">>, <<"Tsuu", "Tatsu">>, <<"You", "Ryou">> }

RECURSIVE MaterialStatements(_, _)
MaterialStatements(mats, pid) ==
    IF mats = <<>> THEN <<>>
    ELSE (IF MaterialName(Head(mats)) # <<>>
          THEN <<StMergeDim("Material", MaterialName(Head(mats)), pid, "USES_MATERIAL", NoRole)>>
          ELSE <<>>)
         \o MaterialStatements(Tail(mats), pid)

RECURSIVE SpecLineStatements(_, _)
SpecLineStatements(lines, pid) ==
    IF lines = <<>> THEN <<>>
    ELSE LET line == Head(lines)
         IN (IF \E kw \in MethodKeywords : Contains(line, kw)
             THEN <<StMergeDim("Method", line, pid, "USES_METHOD", NoRole)>> ELSE <<>>)
            \o (IF \E kw \in RegKeywords : Contains(line, kw)
                THEN <<StMergeDim("Regulation", line, pid, "REQUIRES_REGULATION", NoRole)>>
                ELSE <<>>)
            \o SpecLineStatements(Tail(lines), pid)

\* The statements save_design_doc_to_neo4j runs once it has found the Project.
DesignDocStatements(parsed_data, project_id) ==
    LET Val(k) == Get(parsed_data, k, EmptyStr)
        quantities == Val("quantities")
        specs == Val("special_specs")
    IN <<StCreateDoc(project_id,
            [document_title |-> Val("document_title"),
             project_name |-> Val("project_name"),
             project_code |-> Val("project_code"),
             location |-> Val("location"),
             executing_office |-> Val("executing_office"),
             contract_days |-> Val("contract_days"),
             quantities |-> CASE quantities.t \in {"list", "dict"} -> JsonDumps(quantities)
                              [] quantities.t = "str" -> quantities
                              [] quantities.t = "none" -> PyStr(<<"N", "o", "n", "e">>),
             special_specs |-> specs,
             raw_json |-> JsonDumps(PyDict(parsed_data)),
             created_at |-> Timestamp])>>
       \o FieldStatement("BudgetCategory", Val("budget_category"), project_id,
                         "HAS_BUDGET_CATEGORY")
       \o MaterialStatements(SplitCsv(quantities), project_id)
       \o (IF Truthy(specs) THEN SpecLineStatements(SplitCsv(specs), project_id) ELSE <<>>)

\* The statements of delete_project_from_neo4j.
DeleteStatements(project_id) ==
    <<StDelete("delete_docs", project_id), StDelete("delete_project", project_id),
      StDelete("gc", project_id)>>

\* The states of the graph store as a call finds it: no password configured,
\* configured but not connectable, connectable.
ConnStates == {"no_password", "unreachable", "up"}

\* _get_working_driver: a driver when the store is connectable, None otherwise
\* (_try_connect catches every connection error).
GetWorkingDriver(conn) == IF conn = "up" THEN "driver" ELSE "None"

\* A plausible slip: the error of a failed statement propagates to the caller.
GraphErrorPropagates == "raise"

\* except Exception: return False
OnGraphError == "return_false"

\* The outcome of a graph operation: the graph it leaves, the boolean it returns,
\* whether it raised instead of returning, and whether it left its driver open.
GraphResult(G, ret, raised, leak) ==
    [graph |-> G, ret |-> ret, raised |-> raised, leak |-> leak]

\* with driver.session(): the statements run one by one, each committed on its
\* own, until the store fails one (statement failAt; 0: the store fails none),
\* the store rejects one, or the operation's own code raises after the last of
\* them (pyRaise).
RunSession(G, stmts, failAt, pyRaise) ==
    LET stops == {i \in 1..Len(stmts) : i = failAt \/ StmtRejected(stmts[i])}
        n == IF stops = {} THEN Len(stmts) ELSE Min(stops) - 1
        failed == stops # {} \/ pyRaise
    IN GraphResult(RunStatements(G, stmts, n),
                   ~failed,
                   failed /\ OnGraphError = "raise",
                   FALSE)

\* save_project_to_neo4j
SaveProjectToNeo4j(G, project, conn, failAt) ==
    IF GetWorkingDriver(conn) = "None" THEN GraphResult(G, FALSE, FALSE, FALSE)
    ELSE IF ~Truthy(Get(project, "id", PyNone)) THEN GraphResult(G, FALSE, FALSE, TRUE)
    ELSE RunSession(G, SaveProjectStatements(project), failAt,
                    EngineersRaise(NormalizeProjectData(project)))

\* A plausible slip: the existence check is skipped.
ProjectNodeAssumed(G, project_id) == TRUE

\* if not result.single(): the lookup found a Project node
ProjectNodeFound(G, project_id) == MatchNodes(G, "Project", ProjectKey(project_id)) # {}

\* save_design_doc_to_neo4j
SaveDesignDocToNeo4j(G, parsed_data, project_id, conn, failAt) ==
    IF GetWorkingDriver(conn) = "None" THEN GraphResult(G, FALSE, FALSE, FALSE)
    ELSE IF failAt # 1 /\ ~ProjectNodeFound(G, project_id)
    THEN GraphResult(G, FALSE, FALSE, FALSE)
    ELSE RunSession(G,
            <<StDelete("lookup", project_id)>> \o DesignDocStatements(parsed_data, project_id),
            failAt, FALSE)

\* delete_project_from_neo4j
DeleteProjectFromNeo4j(G, project_id, conn, failAt) ==
    IF GetWorkingDriver(conn) = "None" THEN GraphResult(G, FALSE, FALSE, FALSE)
    ELSE RunSession(G, DeleteStatements(project_id), failAt, FALSE)

----------------------------------------------------------------------------
(* Inputs: extraction results (the mapping the parser returns for a document) *)
(* and design-document mappings.  Names that the code only compares are one   *)
(* opaque character; what the code takes apart is spelled out.                *)

Str1(c) == PyStr(<<c>>)

\* "Reiwa 4 nendo hosou" / "Reiwa (full-width 4) nendo kyouryou" / "Heisei 30 nendo"
NameReiwa4 == <<"Rei", "Wa", "4", "Nen", "Do", "Hosou">>

NameReiwa4Wide == <<"Rei", "Wa", "F4", "Nen", "Do", "Kyouryou">>

NameHeisei30 == <<"Hei", "Sei", "3", "0", "Nen", "Do", "Kouji">>

\* "Ooita-ken Hita-shi", "Ooita-ken"
LocOitaHita == <<"Oo", "Ita", "Ken", "Hi", "Ta", "Shi">>

LocOita == <<"Oo", "Ita", "Ken">>

Date20240501 == <<"2", "0", "2", "4", "-", "0", "5", "-", "0", "1">>

Date20240201 == <<"2", "0", "2", "4", "-", "0", "2", "-", "0", "1">>

\* A record of every field, with an engineer given as a dict and one as "role: name".
DataFull ==
    [corins_id |-> Str1("C-100"),
     project_name |-> PyStr(NameReiwa4),
     contract_amount |-> PyInt(1000),
     start_date |-> PyStr(Date20240501),
     end_date |-> PyStr(Date20240201),
     location |-> PyStr(LocOitaHita),
     client_name |-> Str1("ClientA"),
     contractor_name |-> Str1("ContractorA"),
     field |-> Str1("Douro"),
     work_types |-> PyList(<<Str1("Hosou"), Str1("Kussaku")>>),
     engineers |-> PyList(<<PyDict([name |-> Str1("Sato"), role |-> Str1("Kanri")]),
                            PyStr(<<"Shunin", ":", "SP", "Suzuki">>)>>),
     summary |-> Str1("Gaiyou"),
     target_route_name |-> Str1("Route10"),
     contract_method |-> Str1("Ippan"),
     construction_permit_type |-> Str1("Doboku"),
     bid_qualification_category |-> Str1("RankA"),
     construction_area |-> Str1("DID"),
     construction_methods |-> PyStr(<<"Kiri", "Saku", ",", "kO", "k-", "kBa", "k-", "kRe", "kI">>)]

\* A record of the default schema that shares DataFull's client, prefecture,
\* field and an engineer (under another role), with the other fields null.
DataShared ==
    [corins_id |-> Str1("C-200"),
     project_name |-> PyStr(NameReiwa4Wide),
     contract_amount |-> PyNone,
     start_date |-> PyStr(Date20240201),
     end_date |-> PyNone,
     location |-> PyStr(LocOita),
     client_name |-> Str1("ClientA"),
     contractor_name |-> Str1("ContractorB"),
     field |-> Str1("Douro"),
     work_types |-> PyList(<<Str1("Hosou")>>),
     engineers |-> PyList(<<PyDict([name |-> Str1("Sato"), role |-> Str1("Shunin")])>>),
     summary |-> PyNone]

\* Another work of DataShared's fiscal year, client and place.
DataShared2 ==
    [DataShared EXCEPT !.corins_id = Str1("C-300"), !.project_name = PyStr(NameReiwa4),
                       !.contractor_name = Str1("ContractorA")]

\* A record in which the extractor found nothing but the name.
DataBare ==
    [corins_id |-> PyNone,
     project_name |-> PyStr(NameHeisei30),
     contract_amount |-> PyNone,
     start_date |-> PyNone,
     end_date |-> PyNone,
     location |-> PyNone,
     client_name |-> PyNone,
     contractor_name |-> PyNone,
     field |-> PyNone,
     work_types |-> PyList(<<>>),
     engineers |-> PyList(<<>>),
     summary |-> PyNone]

\* The full record with null where the extractor found no engineers.
DataNullEngineers == [DataFull EXCEPT !.engineers = PyNone]

Extractions == <<DataFull, DataShared, DataBare, DataNullEngineers>>

\* A design document: a budget category, two materials with quantities, and two
\* specification lines, the first naming a method ("... kouhou"), the second a
\* regulation ("... kijun").
DocFull ==
    [document_title |-> Str1("Tokki"),
     project_name |-> PyStr(NameReiwa4),
     budget_category |-> Str1("Hojo"),
     quantities |-> PyStr(<<"Asphalt", "SP", "1", "0", "0", "m", ",", "Saiseki", "2", "0", "M3">>),
     special_specs |-> PyStr(<<"Kiri", "Saku", "Kou", "Hou", "NL", "Hosou", "Moto", "Jun">>)]

DesignDocs == <<DocFull>>

SqliteModes == {"fixed", "json", "both"}

ProjectTypes == {PyStr(<<"past">>), PyStr(<<"current">>)}

----------------------------------------------------------------------------
(* Extraction front end (parsers/corins_parser.py) and registration          *)
(* (services/project_service.py)                                             *)

\* The outcome of the parser: it raised, or the mapping it returned.
ParseResult(raised, data) == [raised |-> raised, data |-> data]

\* json.loads accepts the text
JsonValid(text) == text.t = "json"

\* A plausible slip: a failed extraction yields an empty mapping instead of an error.
ParseCorinsFileLenient(text, api_key, response) ==
    IF Truthy(text) /\ Strip(text.v) # <<>> /\ api_key /\ JsonValid(response)
    THEN ParseResult(FALSE, JsonLoads(response).v)
    ELSE ParseResult(FALSE, EmptyDict)

\* extract_with_claude: raises without the API key, raises on a response that is
\* not JSON, else returns the parsed response.
ExtractWithClaude(text, api_key, response) ==
    IF ~api_key THEN ParseResult(TRUE, EmptyDict)
    ELSE IF ~JsonValid(response) THEN ParseResult(TRUE, EmptyDict)
    ELSE ParseResult(FALSE, JsonLoads(response).v)

\* parse_corins_file: raises on a text that is empty or blank, else extracts.
ParseCorinsFile(text, api_key, response) ==
    IF ~Truthy(text) \/ Strip(text.v) = <<>> THEN ParseResult(TRUE, EmptyDict)
    ELSE ExtractWithClaude(text, api_key, response)

\* The characters _sanitize_folder_name replaces ("BSL" the backslash, "DQ" the
\* double quote).
ForbiddenFolderChars == {"BSL", "/", ":", "*", "?", "DQ", "<", ">", "|"}

\* _sanitize_folder_name
SanitizeFolderName(name) ==
    [i \in 1..Len(name) |-> IF name[i] \in ForbiddenFolderChars THEN "_" ELSE name[i]]

\* The name a project without a name is registered under.
Unnamed == PyStr(<<"Mi", "Mei", "Mei2">>)

\* project_name = data.get("project_name") or the unnamed marker
ProjectNameOf(data) == PyOr(Get(data, "project_name", PyNone), Unnamed)

\* The folder of a registration, relative to the project root: data/<past or
\* current works>/<code>_<sanitized name>.
FolderPath(project_type, project_code, project_name) ==
    <<"data", "/">>
    \o (IF project_type = PyStr(<<"past">>) THEN <<"KakoKouji">> ELSE <<"ShinkiKouji">>)
    \o <<"/">> \o project_code \o <<"_">> \o SanitizeFolderName(project_name)

\* The mapping save_project receives: the parser's mapping with the code and
\* the folder path.
RegistrationData(data, project_type, project_code) ==
    Put(Put(data, "project_code", PyStr(project_code)),
        "folder_path", PyStr(FolderPath(project_type, project_code, ProjectNameOf(data).v)))

\* A plausible slip: the table declares project_code UNIQUE.
InsertRejectedOnDuplicateCode(table, row) ==
    \E r \in table : r["project_code"] = row["project_code"]

\* The projects table declares no constraint besides its primary key: no INSERT
\* of save_project is rejected.
InsertRejected(table, row) == FALSE

\* PROJECT_ROOT of project_service, under which register_project_from_corins
\* makes the folders; dirs below are paths relative to it.
ProjectRoot == "PROJECT_ROOT"

\* DB_DIR.parent: the project root when MIGIUDE_DB_PATH is unset (db/migiude.db
\* under the root), else the parent of the directory the variable names.
DbDirParents == {ProjectRoot, "parent_of_MIGIUDE_DB_PATH_dir"}

\* delete_project: the row of the id is removed; when a row was removed and it
\* has a folder path, the folder of that path under root (DB_DIR.parent) is
\* removed if it exists.  No folder of the model lies outside the project root.
DeleteProject(table, dirs, id, root) ==
    LET hit == {r \in table : r["id"] = PyInt(id)}
        paths == {r["folder_path"].v : r \in {x \in hit : Truthy(x["folder_path"])}}
        existing == IF root = ProjectRoot THEN paths \cap dirs ELSE {}
    IN [rows |-> table \ hit, folders |-> dirs \ existing, deleted |-> hit # {}]

\* DEFAULT_DB_SELECTION
DefaultDbSelection ==
    [sqlite |-> TRUE, chroma |-> FALSE, neo4j |-> FALSE, sqlite_mode |-> "both"]

\* The project dict (the result of get_project_by_id) of extraction data saved
\* under id pk in the given mode; its code is the first of its prefix.
ProjectDictOf(data, pk, sqlite_mode) ==
    LET code == GenerateProjectCode({}, ProjectNameOf(data).v)
    IN RowToDict(InsertedRow(RegistrationData(data, PyStr(<<"past">>), code),
                             PyStr(<<"past">>), sqlite_mode, pk))

----------------------------------------------------------------------------
(* Initial values shared by the specifications *)

NoOp == [kind |-> "none", pid |-> 0, input |-> 0, mode |-> "", driver |-> FALSE, ret |-> FALSE,
         raised |-> FALSE, leak |-> FALSE, again |-> FALSE, changed |-> FALSE]

Procs == {1, 2}

NoCode == <<>>

NoUpload == [text |-> PyNone, api_key |-> FALSE, response |-> PyNone]

NoGraphCall == [called |-> FALSE, fault |-> "", ret |-> FALSE]

\* A process that has made no registration call.
IdleReg ==
    [pc |-> "idle", upload |-> NoUpload, project_type |-> PyNone, save_to_neo4j |-> "None",
     code |-> NoCode, pk |-> 0, result |-> PyNone, graphCall |-> NoGraphCall,
     raisedAt |-> "", allocVer |-> 0, saveVer |-> 0, allocCase |-> "", prevCode |-> NoCode]

\* config/data_sources.json does not exist.
CfgAbsent == [kind |-> "absent"]

\* The stores after app start-up (init_db has run, nothing is registered).
StoresInit ==
    /\ graph = EmptyGraph
    /\ lastOp = NoOp
    /\ rows = {}
    /\ nextId = 1
    /\ folders = {}
    /\ reg = [p \in Procs |-> IdleReg]
    /\ regCount = 0
    /\ storeVer = 0
    /\ prevAlloc = [x \in {} |-> NoCode]
    /\ faults = 0
    /\ saveArgs = <<>>

----------------------------------------------------------------------------
(* SpecPrefix: every project name of up to MaxSegs segments *)

MaxSegs == 6

NameSegments ==
    { <<"Rei", "Wa">>, <<"Hei", "Sei">>, <<"Nen", "Do">>, <<"4">>, <<"F5">>, <<"x">> }

ProjName == Flatten(nameSegs)

PrefixInit ==
    nameSegs = <<>> /\ dbSel = DefaultDbSelection /\ dbDirParent = ProjectRoot /\ cfgFile = CfgAbsent
    /\ StoresInit

\* _generate_project_code is called, on the empty table, for the name extended by
\* one segment; process 1 holds the code it returns.
AllocateForName ==
    /\ Len(nameSegs) < MaxSegs
    /\ \E seg \in NameSegments :
          /\ nameSegs' = Append(nameSegs, seg)
          /\ reg' = [reg EXCEPT ![1].code =
                        GenerateProjectCode(rows, Flatten(Append(nameSegs, seg)))]
    /\ UNCHANGED <<graph, lastOp, dbSel, otherVars, rows, nextId, folders, regCount, storeVer,
                   prevAlloc, faults>>

PrefixNext == AllocateForName

SpecPrefix == PrefixInit /\ [][PrefixNext]_vars

\* The years of the occurrences of the marker c1 c2 <digits> Nen Do in s: each
\* a run of digits, ASCII or full-width, written in ASCII digits.
MarkerYears(s, c1, c2) ==
    {[k \in 1..(j - i - 2) |-> DigitChar(DigitVal(s[i + 1 + k]))] :
        <<i, j>> \in {ij \in (1..Len(s)) \X (1..Len(s)) :
            /\ ij[2] > ij[1] + 2
            /\ ij[2] + 1 <= Len(s)
            /\ s[ij[1]] = c1 /\ s[ij[1] + 1] = c2
            /\ \A k \in (ij[1] + 2)..(ij[2] - 1) : IsDigit(s[k])
            /\ s[ij[2]] = "Nen" /\ s[ij[2] + 1] = "Do"}}

\* C2: the code allocated for a name starts with "R<n>-" when the name holds a
\* current-era marker of year n, else with "H<n>-" when it holds a previous-era
\* marker of year n, else with "XX-"; n is written in ASCII digits.
C2_PrefixByEra ==
    nameSegs # <<>> =>
        LET code == reg[1].code
            reiwa == MarkerYears(ProjName, "Rei", "Wa")
            heisei == MarkerYears(ProjName, "Hei", "Sei")
        IN IF reiwa # {}
           THEN \E n \in reiwa : StartsWith(code, <<"R">> \o n \o <<"-">>)
           ELSE IF heisei # {}
           THEN \E n \in heisei : StartsWith(code, <<"H">> \o n \o <<"-">>)
           ELSE StartsWith(code, <<"X", "X", "-">>)

\* A name with a previous-era marker before a current-era marker whose year is
\* written with a full-width digit: the code is of the current era's year.
C2_Witness ==
    /\ nameSegs = << <<"Hei", "Sei">>, <<"4">>, <<"Nen", "Do">>,
                     <<"Rei", "Wa">>, <<"F5">>, <<"Nen", "Do">> >>
    /\ reg[1].code = <<"R", "5", "-", "0", "1">>

----------------------------------------------------------------------------
(* SpecGraph: the three graph operations, called in any order on two         *)
(* projects, under each storage mode of the relational rows they are read    *)
(* from.  The store is reachable or not at each call.                        *)

ProjectIds == {1, 2}

MaxDocs == 1

GraphInit ==
    /\ nameSegs = <<>>
    /\ dbSel \in {[DefaultDbSelection EXCEPT !.neo4j = TRUE, !.sqlite_mode = m] :
                    m \in SqliteModes}
    /\ dbDirParent = ProjectRoot
    /\ cfgFile = CfgAbsent
    /\ StoresInit

\* The record of a call: what was called, on what, whether it got a driver, the
\* outcome, whether the call repeats the successful call before it (again), and
\* whether it changed the graph.
OpRecord(kind, pid, input, mode, conn, r) ==
    [kind |-> kind, pid |-> pid, input |-> input, mode |-> mode,
     driver |-> GetWorkingDriver(conn) # "None",
     ret |-> r.ret, raised |-> r.raised, leak |-> r.leak,
     again |-> /\ r.ret /\ lastOp.ret
               /\ lastOp.kind = kind /\ lastOp.pid = pid
               /\ lastOp.input = input /\ lastOp.mode = mode,
     changed |-> r.graph # graph]

\* The extractions a project is saved from: project 1 from the full record or,
\* re-extracted, from the shorter one; project 2 from the shorter one, the bare
\* one or the one without engineers; a mapping never stored is one of the last two.
ExtractionsOf(pid) == IF pid = 1 THEN {1, 2} ELSE IF pid = 2 THEN {2, 3, 4} ELSE {3, 4}

\* A mapping that was not read from the table has no id.
NoId == 0

\* save_project_to_neo4j is called with the record of a stored project or with
\* an extracted mapping that was never stored.
GSaveProject ==
    \E pid \in ProjectIds \cup {NoId}, conn \in ConnStates : \E i \in ExtractionsOf(pid) :
        LET project == IF pid = NoId THEN Extractions[i]
                       ELSE ProjectDictOf(Extractions[i], pid, dbSel.sqlite_mode)
            r == SaveProjectToNeo4j(graph, project, conn, 0)
        IN /\ graph' = r.graph
           /\ lastOp' = OpRecord("save", pid, i, dbSel.sqlite_mode, conn, r)
           /\ UNCHANGED <<nameSegs, dbSel, otherVars, regVars>>

GSaveDesignDoc ==
    \E pid \in ProjectIds, i \in 1..Len(DesignDocs), conn \in ConnStates :
        /\ Cardinality({n \in NodeIds(graph) : n.label = "DesignDocument"}) < MaxDocs
        /\ LET r == SaveDesignDocToNeo4j(graph, DesignDocs[i], pid, conn, 0)
           IN /\ graph' = r.graph
              /\ lastOp' = OpRecord("doc", pid, i, "", conn, r)
              /\ UNCHANGED <<nameSegs, dbSel, otherVars, regVars>>

GDeleteProject ==
    \E pid \in ProjectIds, conn \in ConnStates :
        LET r == DeleteProjectFromNeo4j(graph, pid, conn, 0)
        IN /\ graph' = r.graph
           /\ lastOp' = OpRecord("delete", pid, 0, "", conn, r)
           /\ UNCHANGED <<nameSegs, dbSel, otherVars, regVars>>

GraphNext == GSaveProject \/ GSaveDesignDoc \/ GDeleteProject

SpecGraph == GraphInit /\ [][GraphNext]_vars

----------------------------------------------------------------------------
(* Properties of the graph operations (SpecGraph) *)

ProjectNodes(G, pid) == MatchNodes(G, "Project", ProjectKey(pid))

\* The Project nodes that have an edge to node n.
ReferringProjects(G, n) ==
    {e.src : e \in {x \in G.edges : x.dst = n /\ x.src.label = "Project"}}

\* The edges of G that touch a node of ns.
EdgesOf(G, ns) == {e \in G.edges : e.src \in ns \/ e.dst \in ns}

\* The DesignDocument nodes attached to the Project nodes ps.
DocsOf(G, ps) ==
    {e.dst : e \in {x \in G.edges : x.src \in ps /\ x.type = "HAS_DESIGN_DOC"
                                     /\ x.dst.label = "DesignDocument"}}

SaveAgain == lastOp'.kind = "save" /\ lastOp'.again

DeleteSucceeds == lastOp'.kind = "delete" /\ lastOp'.ret

\* C4: a save_project_to_neo4j call that repeats the successful call before it,
\* with the same project data, leaves the set of nodes and the set of edges as
\* the first call left them, and the graph holds no second node of a label and
\* key and no second edge between two nodes with the same type and role.
C4_UpsertIdempotent ==
    [][SaveAgain =>
          /\ NodeIds(graph') = NodeIds(graph)
          /\ graph'.edges = graph.edges
          /\ \A n \in NodeIds(graph') : n.label # "DesignDocument" => n.copy = 0
          /\ \A e \in graph'.edges : e.copy = 0]_vars

\* A project with two engineers, each under a role, a prefecture and a city has
\* been saved twice in a row.
C4_Witness ==
    /\ lastOp.kind = "save" /\ lastOp.again /\ lastOp.input = 1
    /\ \E e \in graph.edges : e.type = "HAS_ENGINEER" /\ e.role = PyStr(<<"Shunin">>)
    /\ \E e \in graph.edges : e.type = "HAS_ENGINEER" /\ e.role = Str1("Kanri")
    /\ \E e \in graph.edges : e.type = "PART_OF"
    /\ \E e \in graph.edges : e.type = "MANAGES"

\* C5, as claimed: when delete_project_from_neo4j succeeds for a Project, every
\* dimension node that this Project alone referred to is gone from the graph.
C5_UnsharedDimensionsRemoved ==
    [][DeleteSucceeds =>
          \A n \in NodeIds(graph) :
              (/\ n.label \in GcLabels
               /\ ReferringProjects(graph, n) # {}
               /\ ReferringProjects(graph, n) \subseteq ProjectNodes(graph, lastOp'.pid))
              => n \notin NodeIds(graph')]_vars

\* C6: when delete_project_from_neo4j succeeds for a Project, every dimension
\* node that another Project also refers to stays, and every other Project node
\* keeps its attributes and all of its edges.
C6_DeleteKeepsShared ==
    [][DeleteSucceeds =>
          LET gone == ProjectNodes(graph, lastOp'.pid)
              others == {n \in NodeIds(graph) : n.label = "Project"} \ gone
          IN /\ \A n \in NodeIds(graph) :
                   (n.label \in GcLabels /\ ReferringProjects(graph, n) \ gone # {})
                   => n \in NodeIds(graph')
             /\ \A q \in others :
                   /\ q \in NodeIds(graph')
                   /\ graph'.nodes[q] = graph.nodes[q]
                   /\ EdgesOf(graph', {q}) = EdgesOf(graph, {q})]_vars

\* Project 1 has been deleted from a graph in which project 2 shares its client,
\* its field and an engineer; the delete removed nodes.
C6_Witness ==
    /\ lastOp.kind = "delete" /\ lastOp.ret /\ lastOp.pid = 1 /\ lastOp.changed
    /\ ProjectNodes(graph, 1) = {}
    /\ \E q \in ProjectNodes(graph, 2) :
          /\ \E e \in graph.edges : e.src = q /\ e.type = "ORDERED_BY"
          /\ \E e \in graph.edges : e.src = q /\ e.type = "HAS_ENGINEER"
          /\ \E e \in graph.edges : e.src = q /\ e.type = "IN_FIELD"

\* Every node of G missing from G2 is one of gd or a node of a dimension label
\* whose every relationship in G is with a node of gd.
RemovedInScope(G, G2, gd) ==
    \A n \in NodeIds(G) \ NodeIds(G2) :
        \/ n \in gd
        \/ /\ n.label \in GcLabels
           /\ \A e \in EdgesOf(G, {n}) : e.src \in gd \/ e.dst \in gd

\* C7: a delete_project_from_neo4j call removes only the Project node of its
\* id, the DesignDocument nodes attached to it, and nodes of a dimension label
\* that the removal of those leaves without any relationship.
C7_GcScope ==
    [][lastOp'.kind = "delete" =>
          RemovedInScope(graph, graph',
              ProjectNodes(graph, lastOp'.pid)
                  \cup DocsOf(graph, ProjectNodes(graph, lastOp'.pid)))]_vars

\* Project 1 has been deleted, its dimension nodes with it, while project 2,
\* a Project node without any relationship, is still in the graph.
C7_Witness ==
    /\ lastOp.kind = "delete" /\ lastOp.ret /\ lastOp.pid = 1 /\ lastOp.changed
    /\ ProjectNodes(graph, 1) = {}
    /\ \E q \in ProjectNodes(graph, 2) : Isolated(graph, q)

\* C8: save_design_doc_to_neo4j for an id that has no Project node returns False
\* and leaves the graph as it was.
C8_DocNeedsProject ==
    [][(lastOp'.kind = "doc" /\ ProjectNodes(graph, lastOp'.pid) = {}) =>
          /\ ~lastOp'.ret
          /\ ~lastOp'.raised
          /\ graph' = graph]_vars

\* A design document was sent for project 2 while the store was reachable and
\* held project 1 only.
C8_Witness ==
    /\ lastOp.kind = "doc" /\ lastOp.pid = 2 /\ lastOp.driver /\ ~lastOp.ret
    /\ ProjectNodes(graph, 2) = {}
    /\ ProjectNodes(graph, 1) # {}

----------------------------------------------------------------------------
(* SpecReg: registration calls of two concurrent processes (sessions of the   *)
(* web app), each call taking its steps in program order, and the app's       *)
(* delete button.  Between two steps of a call the other process may run.     *)

MaxRegs == 2

Texts == {PyStr(<<>>), PyStr(<<"SP", "NL">>), PyStr(<<"Corins">>)}

NonJsonResponse == PyStr(<<"Sumimasen">>)

\* The documents uploaded for registration: two works of the same fiscal year
\* and a third of another.
Registered == {DataShared, DataShared2, DataBare}

Responses == {JsonDumps(PyDict(e)) : e \in Registered} \cup {NonJsonResponse}

\* An upload: the text read from the file, whether the API key is set when it is
\* parsed, and the response of the extraction service.  At most one of the three
\* is faulty.
Uploads ==
    {u \in [text : Texts, api_key : BOOLEAN, response : Responses] :
        LET faulty == {f \in {"text", "api_key", "response"} :
                          \/ f = "text" /\ u.text # PyStr(<<"Corins">>)
                          \/ f = "api_key" /\ ~u.api_key
                          \/ f = "response" /\ u.response = NonJsonResponse}
        IN \/ faulty = {}
           \/ Cardinality(faulty) = 1 /\ u.response \in {NonJsonResponse,
                                                         JsonDumps(PyDict(DataShared))}}

\* app.py:57 passes no save_to_neo4j argument.
SaveToNeo4jArgs == {"None"}

MaxFaults == 1

\* The db_selection that get_db_selection returns during a behaviour.
DbSelections ==
    {[DefaultDbSelection EXCEPT !.neo4j = n, !.sqlite_mode = m] :
        n \in BOOLEAN, m \in SqliteModes}
    \cup {[DefaultDbSelection EXCEPT !.sqlite = FALSE, !.neo4j = TRUE]}

\* The failure points of a session of n statements: none (0) or any statement.
FailPoints(conn, n) == IF conn = "up" THEN 0..n ELSE {0}

\* A graph call meets a fault when the store is not connectable or fails a statement.
IsFault(conn, failAt) == conn # "up" \/ failAt > 0

\* The circumstances of a graph call: the state of the store and the statement
\* it fails, within the budget of faults.
GraphCalls(n) ==
    {c \in [conn : ConnStates, failAt : 0..n] :
        /\ c.failAt \in FailPoints(c.conn, n)
        /\ IsFault(c.conn, c.failAt) => faults < MaxFaults}

\* The tab a session registers from: past works or current works.
TabOf(p) == IF p = 1 THEN PyStr(<<"past">>) ELSE PyStr(<<"current">>)

RegInit ==
    nameSegs = <<>> /\ dbSel \in DbSelections /\ dbDirParent = ProjectRoot /\ cfgFile = CfgAbsent
    /\ StoresInit

ParsedOf(r) == ParseCorinsFile(r.upload.text, r.upload.api_key, r.upload.response)

\* What followed the last allocation of a prefix, when a row of code is stored
\* or removed.
NoteStoreChange(log, code, isSave) ==
    [x \in DOMAIN log |->
        IF StartsWith(code, x \o <<"-">>)
        THEN IF isSave /\ log[x].code = code
             THEN [log[x] EXCEPT !.saves = 1]
             ELSE [log[x] EXCEPT !.other = TRUE]
        ELSE log[x]]

\* register_project_from_corins, line 85: the call, of an upload of uploads and
\* with a save_to_neo4j argument of args, and its parse; at most calls calls
\* are made in a behaviour
RCall(p, uploads, args, calls) ==
    /\ reg[p].pc \in {"idle", "returned", "raised"}
    /\ regCount < calls
    /\ \E upload \in uploads, arg \in args :
          LET r == [IdleReg EXCEPT !.upload = upload, !.project_type = TabOf(p),
                                   !.save_to_neo4j = arg]
          IN reg' = [reg EXCEPT ![p] =
                        IF ParsedOf(r).raised
                        THEN [r EXCEPT !.pc = "raised", !.raisedAt = "parse"]
                        ELSE [r EXCEPT !.pc = "parsed"]]
    /\ regCount' = regCount + 1
    /\ UNCHANGED <<nameSegs, graph, lastOp, dbSel, otherVars, rows, nextId, folders, storeVer,
                   prevAlloc, faults>>

\* The call as app.py makes it.
RParse(p) == RCall(p, Uploads, SaveToNeo4jArgs, MaxRegs)

\* lines 87-89: the code is allocated from the stored count
RAlloc(p) ==
    /\ reg[p].pc = "parsed"
    /\ LET name == ProjectNameOf(ParsedOf(reg[p]).data).v
           prefix == ExtractYearPrefix(name)
           code == GenerateProjectCode(rows, name)
           known == prefix \in DOMAIN prevAlloc
           case == IF ~known THEN "first"
                   ELSE IF prevAlloc[prefix].other THEN "other"
                   ELSE IF prevAlloc[prefix].saves = 1 THEN "after_save"
                   ELSE "no_save"
       IN /\ reg' = [reg EXCEPT ![p] =
                        [@ EXCEPT !.pc = "allocated", !.code = code, !.allocVer = storeVer,
                                  !.allocCase = case,
                                  !.prevCode = IF known THEN prevAlloc[prefix].code
                                               ELSE NoCode]]
          /\ prevAlloc' = (prefix :> [code |-> code, saves |-> 0, other |-> FALSE])
                              @@ prevAlloc
    /\ UNCHANGED <<nameSegs, graph, lastOp, dbSel, otherVars, rows, nextId, folders, regCount,
                   storeVer, faults>>

\* lines 91-115: the folder is made, then the db_selection is read and a
\* selection without the relational store is refused
RFolder(p) ==
    /\ reg[p].pc = "allocated"
    /\ folders' = folders \cup
          {FolderPath(reg[p].project_type, reg[p].code,
                      ProjectNameOf(ParsedOf(reg[p]).data).v)}
    /\ reg' = [reg EXCEPT ![p] =
                  IF dbSel.sqlite THEN [@ EXCEPT !.pc = "foldered"]
                  ELSE [@ EXCEPT !.pc = "raised", !.raisedAt = "config"]]
    /\ UNCHANGED <<nameSegs, graph, lastOp, dbSel, otherVars, rows, nextId, regCount, storeVer,
                   prevAlloc, faults>>

\* line 117: save_project, which raises on a value it cannot bind
RSave(p) ==
    /\ reg[p].pc = "foldered"
    /\ LET data == RegistrationData(ParsedOf(reg[p]).data, reg[p].project_type, reg[p].code)
           row == InsertedRow(data, reg[p].project_type, dbSel.sqlite_mode, nextId)
       IN IF InsertRejected(rows, row) \/ SaveProjectRaises(data, dbSel.sqlite_mode)
          THEN /\ reg' = [reg EXCEPT ![p] = [@ EXCEPT !.pc = "raised", !.raisedAt = "save"]]
               /\ UNCHANGED <<rows, nextId, storeVer, prevAlloc>>
          ELSE /\ rows' = rows \cup {row}
               /\ nextId' = nextId + 1
               /\ storeVer' = storeVer + 1
               /\ prevAlloc' = NoteStoreChange(prevAlloc, reg[p].code, TRUE)
               /\ reg' = [reg EXCEPT ![p] =
                             [@ EXCEPT !.pc = "inserted", !.pk = nextId,
                                       !.saveVer = storeVer]]
    /\ UNCHANGED <<nameSegs, graph, lastOp, dbSel, otherVars, folders, regCount, faults>>

\* The fault a graph call met, "" when it met none.
FaultOf(c) ==
    IF c.conn # "up" THEN c.conn ELSE IF c.failAt > 0 THEN "statement" ELSE ""

\* lines 121-128 with the graph call made: r is the outcome of
\* save_project_to_neo4j, whose return value the registration ignores
Mirrored(p, saved, c, r) ==
    /\ graph' = r.graph
    /\ faults' = IF IsFault(c.conn, c.failAt) THEN faults + 1 ELSE faults
    /\ reg' = [reg EXCEPT ![p] =
                  [@ EXCEPT !.pc = IF r.raised THEN "raised" ELSE "returned",
                            !.raisedAt = IF r.raised THEN "graph" ELSE @,
                            !.result = IF r.raised THEN @ ELSE saved,
                            !.graphCall = [called |-> TRUE, ret |-> r.ret,
                                           fault |-> FaultOf(c)]]]

\* A plausible slip: the save_to_neo4j argument is not consulted.
FinishedByPolicyOnly(p, saved) ==
    IF Truthy(saved) /\ dbSel.neo4j
    THEN \E c \in GraphCalls(Len(SaveProjectStatements(saved.v))) :
            Mirrored(p, saved, c, SaveProjectToNeo4j(graph, saved.v, c.conn, c.failAt))
    ELSE /\ reg' = [reg EXCEPT ![p] = [@ EXCEPT !.pc = "returned", !.result = saved]]
         /\ UNCHANGED <<graph, faults>>

\* lines 121-128: the saved record is mirrored to the graph when the call asks
\* for it or, the call leaving it open, the db_selection names the graph
Finished(p, saved) ==
    IF /\ Truthy(saved)
       /\ \/ reg[p].save_to_neo4j = "True"
          \/ reg[p].save_to_neo4j = "None" /\ dbSel.neo4j
    THEN \E c \in GraphCalls(Len(SaveProjectStatements(saved.v))) :
            Mirrored(p, saved, c, SaveProjectToNeo4j(graph, saved.v, c.conn, c.failAt))
    ELSE /\ reg' = [reg EXCEPT ![p] = [@ EXCEPT !.pc = "returned", !.result = saved]]
         /\ UNCHANGED <<graph, faults>>

\* lines 118-128: the saved row is read back, mirrored to the graph when asked
\* for, and returned
RFinish(p) ==
    /\ reg[p].pc = "inserted"
    /\ Finished(p, GetProjectById(rows, reg[p].pk))
    /\ UNCHANGED <<nameSegs, lastOp, dbSel, otherVars, rows, nextId, folders, regCount, storeVer,
                   prevAlloc>>

\* app.py, the delete button of a listed project: delete_project, then
\* delete_project_from_neo4j when the selection names the graph
RDelete ==
    \E row \in rows :
        LET id == row["id"].v
            d == DeleteProject(rows, folders, id, dbDirParent)
        IN /\ rows' = d.rows
           /\ folders' = d.folders
           /\ storeVer' = storeVer + 1
           /\ prevAlloc' = NoteStoreChange(prevAlloc, row["project_code"].v, FALSE)
           /\ IF dbSel.neo4j
              THEN \E c \in GraphCalls(Len(DeleteStatements(id))) :
                     /\ graph' = DeleteProjectFromNeo4j(graph, id, c.conn, c.failAt).graph
                     /\ faults' = IF IsFault(c.conn, c.failAt) THEN faults + 1 ELSE faults
              ELSE UNCHANGED <<graph, faults>>
           /\ UNCHANGED <<nameSegs, lastOp, dbSel, otherVars, nextId, reg, regCount>>

RegNext == \/ \E p \in Procs : RParse(p)
           \/ \E p \in Procs : RAlloc(p)
           \/ \E p \in Procs : RFolder(p)
           \/ \E p \in Procs : RSave(p)
           \/ \E p \in Procs : RFinish(p)
           \/ RDelete

SpecReg == RegInit /\ [][RegNext]_vars

----------------------------------------------------------------------------
(* Properties of registration (SpecReg) *)

NameOf(r) == ProjectNameOf(ParsedOf(r).data).v

PrefixOf(r) == ExtractYearPrefix(NameOf(r))

\* The stored rows whose code starts with the prefix and a dash.
RowsOfPrefix(table, prefix) ==
    {r \in table : r["project_code"].t = "str"
                    /\ StartsWith(r["project_code"].v, prefix \o <<"-">>)}

\* n in decimal, at least two digits
TwoDigits(n) == IF n < 10 THEN <<"0", DigitChar(n)>> ELSE NatToChars(n)

\* The sequence number of a code: the number after its dash.
SeqOf(code) ==
    LET dash == CHOOSE i \in 1..Len(code) : code[i] = "-"
    IN CharsToInt(SubSeq(code, dash + 1, Len(code)))

Allocates(p) == reg[p].pc = "parsed" /\ reg'[p].pc = "allocated"

\* C1: an allocation returns the prefix, a dash and the number of stored rows
\* of that prefix plus one in two digits; it returns a higher number than the
\* allocation of the same prefix before it when the only changes of the table
\* in between are saves of that earlier code, and the same code when the table
\* did not change in between.
C1_AllocationCountsStored ==
    [][\A p \in Procs : Allocates(p) =>
          /\ reg'[p].code = PrefixOf(reg[p]) \o <<"-">>
                \o TwoDigits(Cardinality(RowsOfPrefix(rows, PrefixOf(reg[p]))) + 1)
          /\ reg'[p].allocCase = "after_save" => SeqOf(reg'[p].code) > SeqOf(reg'[p].prevCode)
          /\ reg'[p].allocCase = "no_save" => reg'[p].code = reg'[p].prevCode]_vars

\* A second code of the fiscal year has been allocated after the row of the
\* first was saved.
C1_Witness ==
    \E p \in Procs :
        /\ reg[p].pc = "allocated"
        /\ reg[p].allocCase = "after_save"
        /\ reg[p].prevCode = <<"R", "4", "-", "0", "1">>
        /\ reg[p].code = <<"R", "4", "-", "0", "2">>

\* Two calls have read the same stored table for the same prefix: neither had
\* saved when the other allocated.
InRace(regs, p, q) ==
    /\ p # q
    /\ regs[p].code # NoCode /\ regs[q].code # NoCode
    /\ PrefixOf(regs[p]) = PrefixOf(regs[q])
    /\ regs[p].allocVer = regs[q].allocVer

\* C3: two calls that allocate from the same stored table for the same prefix
\* hold the same code, and the save of a call always inserts a row under the
\* code the call holds, whatever codes the table holds already.
C3_AllocatorRace ==
    [][\A p \in Procs :
          /\ (reg[p].pc = "foldered" /\ reg'[p] # reg[p]) =>
                /\ reg'[p].pc = "inserted"
                /\ \E r \in rows' \ rows :
                      /\ r["id"] = PyInt(reg'[p].pk)
                      /\ r["project_code"] = PyStr(reg[p].code)
          /\ \A q \in Procs : InRace(reg', p, q) => reg'[p].code = reg'[q].code]_vars

\* Both processes allocated before either saved, and both rows are stored under
\* one code.
C3_Witness ==
    /\ InRace(reg, 1, 2)
    /\ reg[1].pc \in {"inserted", "returned"} /\ reg[2].pc \in {"inserted", "returned"}
    /\ \E r1, r2 \in rows :
          /\ r1["id"] = PyInt(reg[1].pk) /\ r2["id"] = PyInt(reg[2].pk)
          /\ r1["id"] # r2["id"]
          /\ r1["project_code"] = r2["project_code"]

Finishes(p) == reg[p].pc = "inserted" /\ reg'[p] # reg[p]

\* C9: when the graph call of a registration finds no password, cannot connect
\* or has a statement fail, the call returns False, the row saved by the
\* registration stays as it is, and the registration returns the saved record.
C9_GraphFailureSoft ==
    [][\A p \in Procs :
          (Finishes(p) /\ reg'[p].graphCall.called /\ reg'[p].graphCall.fault # "") =>
              /\ ~reg'[p].graphCall.ret
              /\ reg'[p].pc = "returned"
              /\ rows' = rows
              /\ \E r \in rows' :
                    /\ r["id"] = PyInt(reg[p].pk)
                    /\ reg'[p].result = PyDict(RowToDict(r))]_vars

\* A registration has returned its record although a statement of its graph
\* call failed after the Project node was written.
C9_Witness ==
    \E p \in Procs :
        /\ reg[p].pc = "returned"
        /\ reg[p].graphCall.fault = "statement"
        /\ reg[p].result # PyNone
        /\ ProjectNodes(graph, reg[p].pk) # {}
        /\ \A e \in graph.edges : e.src \notin ProjectNodes(graph, reg[p].pk)

\* The upload cannot be extracted: its text is empty or blank, the API key is
\* missing, or the response is not JSON.
FaultyUpload(u) ==
    \/ u.text.t # "str" \/ \A i \in 1..Len(u.text.v) : u.text.v[i] \in WhiteSpace
    \/ ~u.api_key
    \/ u.response.t # "json"

\* C10: a registration call whose upload cannot be extracted raises in its
\* first step: it holds no code and no row id, and the step changes neither the
\* table, nor the folders, nor the graph, nor the record of allocations.
C10_ExtractionFailsFirst ==
    [][\A p \in Procs :
          (reg'[p] # reg[p] /\ FaultyUpload(reg'[p].upload)) =>
              /\ reg'[p].pc = "raised" /\ reg'[p].raisedAt = "parse"
              /\ reg'[p].code = NoCode /\ reg'[p].pk = 0
              /\ UNCHANGED <<rows, nextId, folders, graph, prevAlloc, storeVer>>]_vars

\* A call has raised on a response that is not JSON while the stores hold an
\* earlier registration.
C10_Witness ==
    \E p \in Procs :
        /\ reg[p].pc = "raised" /\ reg[p].raisedAt = "parse"
        /\ reg[p].upload.response = NonJsonResponse
        /\ reg[p].upload.api_key /\ reg[p].upload.text = PyStr(<<"Corins">>)
        /\ Cardinality(rows) = 1 /\ Cardinality(folders) = 1

----------------------------------------------------------------------------
(* SpecStore: save_project, get_project_by_id and delete_project called on   *)
(* the projects table, in any order, with mappings of every shape            *)

MaxRows == 2

\* A mapping of an extraction whose schema names columns of the table
\* (project_type, id, created_at) and whose values are not of the columns'
\* types: a number for the TEXT column corins_id, digits for contract_amount.
DataColliding ==
    [project_name |-> PyStr(NameHeisei30),
     project_type |-> Str1("Kyouryou"),
     id |-> PyInt(99),
     created_at |-> Str1("then"),
     corins_id |-> PyInt(7),
     contract_amount |-> PyStr(<<"5", "0">>),
     project_code |-> PyStr(<<"H", "3", "0", "-", "0", "1">>),
     folder_path |-> PyStr(FolderPath(PyStr(<<"current">>), <<"H", "3", "0", "-", "0", "1">>,
                                      NameHeisei30))]

\* A mapping whose location is a structure: sqlite3 cannot bind it.
DataUnbindable == [project_name |-> PyStr(NameReiwa4), location |-> PyDict(EmptyDict)]

\* The mappings save_project is called with: a registration's, a bare one
\* without code or folder, the two above, and the empty mapping.
StoreInputs ==
    {RegistrationData(DataFull, PyStr(<<"past">>), <<"R", "4", "-", "0", "1">>),
     DataBare, DataColliding, DataUnbindable, EmptyDict}

StoreInit ==
    /\ nameSegs = <<>>
    /\ dbSel = DefaultDbSelection
    /\ dbDirParent \in DbDirParents
    /\ cfgFile = CfgAbsent
    /\ StoresInit

\* register_project_from_corins, folder.mkdir(parents=True, exist_ok=True): the
\* folder a mapping names comes to exist under the project root.
SMakeFolder ==
    \E data \in StoreInputs :
        /\ Truthy(Get(data, "folder_path", PyNone))
        /\ folders' = folders \cup {data["folder_path"].v}
        /\ lastOp' = [kind |-> "mkdir", pk |-> 0, ret |-> PyNone, raised |-> FALSE]
        /\ UNCHANGED <<nameSegs, graph, dbSel, rows, nextId, reg, regCount, storeVer,
                       prevAlloc, faults, otherVars>>

\* save_project(data, project_type, sqlite_mode)
SSaveProject ==
    /\ nextId <= MaxRows
    /\ \E data \in StoreInputs, project_type \in ProjectTypes, sqlite_mode \in SqliteModes :
          IF SaveProjectRaises(data, sqlite_mode)
          THEN /\ lastOp' = [kind |-> "save", pk |-> 0, ret |-> PyNone, raised |-> TRUE]
               /\ UNCHANGED <<rows, nextId, saveArgs>>
          ELSE /\ rows' = rows \cup {InsertedRow(data, project_type, sqlite_mode, nextId)}
               /\ nextId' = nextId + 1
               /\ saveArgs' = Append(saveArgs, [data |-> data, project_type |-> project_type,
                                                sqlite_mode |-> sqlite_mode])
               /\ lastOp' = [kind |-> "save", pk |-> nextId, ret |-> PyInt(nextId),
                             raised |-> FALSE]
    /\ UNCHANGED <<nameSegs, graph, dbSel, folders, reg, regCount, storeVer, prevAlloc,
                   faults, dbDirParent, cfgFile>>

\* get_project_by_id(id)
SGetProjectById ==
    \E id \in 1..MaxRows :
        /\ lastOp' = [kind |-> "get", pk |-> id, ret |-> GetProjectById(rows, id),
                      raised |-> FALSE]
        /\ UNCHANGED <<nameSegs, graph, dbSel, rows, nextId, folders, reg, regCount, storeVer,
                       prevAlloc, faults, otherVars>>

\* delete_project(id)
SDeleteProject ==
    \E id \in 1..MaxRows :
        /\ rows' = DeleteProject(rows, folders, id, dbDirParent).rows
        /\ folders' = DeleteProject(rows, folders, id, dbDirParent).folders
        /\ lastOp' = [kind |-> "delete", pk |-> id, raised |-> FALSE,
                      ret |-> PyBool(DeleteProject(rows, folders, id, dbDirParent).deleted)]
        /\ UNCHANGED <<nameSegs, graph, dbSel, nextId, reg, regCount, storeVer, prevAlloc,
                       faults, otherVars>>

StoreNext == SMakeFolder \/ SSaveProject \/ SGetProjectById \/ SDeleteProject

SpecStore == StoreInit /\ [][StoreNext]_vars

(* Properties of the projects table *)

\* The mapping a get_project_by_id call returned, and the arguments of the
\* save_project call that made the row it read.
Got == lastOp.ret.v

GotArgs == saveArgs[lastOp.pk]

GotRow(sqlite_mode) ==
    /\ lastOp.kind = "get"
    /\ lastOp.ret # PyNone
    /\ GotArgs.sqlite_mode = sqlite_mode

\* C11: what get_project_by_id returns for a row that save_project wrote in the
\* mode "fixed" never carries a raw mapping: its raw_json is None, whatever the
\* mapping held; its flat columns hold the mapping's values as the columns'
\* types store them (None for a key the mapping lacks), and its work_types and
\* engineers the mapping's lists (the empty list for none).
C11_FixedModeNoRaw ==
    GotRow("fixed") =>
        /\ Got["raw_json"] = PyNone
        /\ \A c \in FlatColumns : Got[c] = Stored(c, Get(GotArgs.data, c, PyNone))
        /\ \A c \in {"work_types", "engineers"} :
              Got[c] = PyOr(Get(GotArgs.data, c, PyNone), PyList(<<>>))
        /\ DOMAIN Got = Columns

\* A row saved from the registration's mapping in the mode "fixed" was read:
\* its name and client are the mapping's, its raw mapping is absent.
C11_Witness ==
    /\ GotRow("fixed")
    /\ GotArgs.data = RegistrationData(DataFull, PyStr(<<"past">>), <<"R", "4", "-", "0", "1">>)
    /\ Got["project_name"] = PyStr(NameReiwa4)
    /\ Got["client_name"] = Str1("ClientA")
    /\ Got["raw_json"] = PyNone

\* The columns a row written in the mode "json" holds a value in besides id and
\* created_at: those of the INSERT and those with a default.
JsonModeColumns ==
    {"project_type", "project_code", "folder_path", "raw_json", "saved_to_neo4j",
     "saved_to_chroma"}

\* C12 as stated: what get_project_by_id returns for a row written in the mode
\* "json" has, under every key of the saved mapping other than id and
\* created_at, the mapping's value, and its project code is the stored one.
C12_JsonRoundTripAllKeys ==
    GotRow("json") =>
        /\ \A k \in DOMAIN GotArgs.data \ {"id", "created_at"} :
              k \in DOMAIN Got /\ Got[k] = GotArgs.data[k]
        /\ Got["project_code"] = Stored("project_code", Get(GotArgs.data, "project_code", PyNone))

\* C12, amended: what get_project_by_id returns for a row written in the mode
\* "json" has, under every key of the saved mapping other than id, created_at
\* and the names of the columns such a row fills itself, the mapping's value,
\* taken from the raw mapping it also returns; its type is the call's, and its
\* project code and folder path are the stored ones.
C12_JsonRoundTrip ==
    GotRow("json") =>
        /\ \A k \in DOMAIN GotArgs.data \ ({"id", "created_at"} \cup JsonModeColumns) :
              k \in DOMAIN Got /\ Got[k] = GotArgs.data[k]
        /\ Got["raw_json"] = PyDict(GotArgs.data)
        /\ Got["project_type"] = GotArgs.project_type
        /\ \A c \in {"project_code", "folder_path"} :
              Got[c] = Stored(c, Get(GotArgs.data, c, PyNone))

\* A row saved from the registration's mapping in the mode "json" was read: its
\* name, its client and a field that is no column are the mapping's again.
C12_Witness ==
    /\ GotRow("json")
    /\ GotArgs.data = RegistrationData(DataFull, PyStr(<<"past">>), <<"R", "4", "-", "0", "1">>)
    /\ Got["project_name"] = PyStr(NameReiwa4)
    /\ Got["client_name"] = Str1("ClientA")
    /\ Got["target_route_name"] = Str1("Route10")
    /\ Got["project_code"] = PyStr(<<"R", "4", "-", "0", "1">>)

\* The rows of an id, and the folders rows name.
RowsOfId(table, id) == {r \in table : r["id"] = PyInt(id)}

FoldersOf(hit) == {r["folder_path"].v : r \in {x \in hit : Truthy(x["folder_path"])}}

\* C19: delete_project(id) returns True exactly when a row of that id existed;
\* then the row is gone and so is the folder it names, with the documents filed
\* in it (the table of linked documents is dropped at start-up: a project's
\* documents are the files of its folder); when there is no such row it
\* returns False and changes neither the table nor the folders.
C19_DeleteRemovesRowAndFolder ==
    [][lastOp'.kind = "delete" =>
          LET hit == RowsOfId(rows, lastOp'.pk)
          IN /\ lastOp'.ret = PyBool(hit # {})
             /\ hit # {} => /\ rows' = rows \ hit
                            /\ FoldersOf(hit) \cap folders' = {}
             /\ hit = {} => UNCHANGED <<rows, folders>>]_vars

(* A further property of the graph operations (SpecGraph) *)

\* The nodes an edge joins to node n.
Neighbours(G, n) ==
    {e.dst : e \in {x \in G.edges : x.src = n}} \cup {e.src : e \in {x \in G.edges : x.dst = n}}

\* C20: when the last graph operation (save_project_to_neo4j,
\* save_design_doc_to_neo4j, delete_project_from_neo4j) has succeeded, every
\* dimension node of the graph has an edge that joins it to a Project node.
C20_DimensionsAttached ==
    lastOp.ret =>
        \A n \in NodeIds(graph) :
            n.label \in GcLabels => \E m \in Neighbours(graph, n) : m.label = "Project"

----------------------------------------------------------------------------
(* The registry of data sources (services/config_service.py).  A data source *)
(* is a dict with the keys id, name, schema (its list of fields, each field  *)
(* modelled by its key) and db_selection; file_type, description and parser  *)
(* are stored as given and read by none of the functions below.              *)

\* DEFAULT_CORINS_SCHEMA and DEFAULT_DESIGN_DOC_SCHEMA
DefaultCorinsSchema ==
    <<"corins_id", "project_name", "contract_amount", "start_date", "end_date", "location",
      "client_name", "contractor_name", "field", "work_types", "engineers", "summary">>

DefaultDesignDocSchema ==
    <<"document_title", "project_name", "project_code", "location", "executing_office",
      "contract_days", "budget_category", "quantities", "special_specs">>

\* The names and ids of the two built-in sources.
CorinsName == "Corins"

DesignDocName == "SekkeiTosho"

CorinsId == "corins-default"

DesignDocId == "design-doc-default"

CorinsSource ==
    [id |-> CorinsId, name |-> CorinsName, schema |-> DefaultCorinsSchema,
     db_selection |-> DefaultDbSelection]

DesignDocSource ==
    [id |-> DesignDocId, name |-> DesignDocName, schema |-> DefaultDesignDocSchema,
     db_selection |-> DefaultDbSelection]

\* None where a data source is expected.
NoSource == EmptyDict

\* {**a, **b}
Overlay(a, b) == [k \in DOMAIN a \cup DOMAIN b |-> IF k \in DOMAIN b THEN b[k] ELSE a[k]]

\* The file holds text that json.load rejects.
CfgMalformed == [kind |-> "malformed"]

\* The file holds the JSON of data.
CfgJson(data) == [kind |-> "json", data |-> data]

\* The dict _load_raw makes up when it has read none.
EmptyRegistry == [data_sources |-> <<>>]

\* _load_raw: the decoded file; the made-up dict when the file does not exist
\* and also when decoding it raises.
LoadRaw(file) == IF file.kind = "json" THEN file.data ELSE EmptyRegistry

\* _save_raw: the file after it
SaveRaw(data) == CfgJson(data)

\* What a registry function leaves in the file and what it returns.
CfgResult(file, ret) == [file |-> file, ret |-> ret]

Names(sources) == {sources[i].name : i \in 1..Len(sources)}

Ids(sources) == {sources[i].id : i \in 1..Len(sources)}

\* _ensure_default_sources: the dict it saves
EnsureDefaultSources(data) ==
    LET s1 == IF CorinsName \notin Names(data.data_sources)
              THEN Append(data.data_sources, CorinsSource) ELSE data.data_sources
        s2 == IF DesignDocName \notin Names(data.data_sources)
              THEN Append(s1, DesignDocSource) ELSE s1
    IN [data EXCEPT !.data_sources = s2]

\* _ensure_db_selection_on_sources: the dict after it; it saves when it changed one
EnsureDbSelectionOnSources(data) ==
    [data EXCEPT !.data_sources =
        [i \in 1..Len(@) |-> IF "db_selection" \in DOMAIN @[i] THEN @[i]
                             ELSE Put(@[i], "db_selection", DefaultDbSelection)]]

\* _ensure_design_doc_if_missing: the dict after it; it saves when it appended
EnsureDesignDocIfMissing(data) ==
    IF DesignDocName \in Names(data.data_sources) \/ DesignDocId \in Ids(data.data_sources)
    THEN data
    ELSE [data EXCEPT !.data_sources = Append(@, DesignDocSource)]

\* get_all_data_sources on an empty list: the defaults are made and saved.
Seeded(data) == CfgResult(SaveRaw(data), data.data_sources)

\* get_all_data_sources on a list with sources: ensured is the dict after the
\* two migrations, saved when one of them changed it.
Migrated(file, data, ensured) ==
    CfgResult(IF ensured = data THEN file ELSE SaveRaw(ensured), ensured.data_sources)

\* get_all_data_sources, data the dict _load_raw returned
AllDataSourcesOf(file, data) ==
    IF data.data_sources = <<>>
    THEN Seeded(EnsureDefaultSources(data))
    ELSE Migrated(file, data, EnsureDesignDocIfMissing(EnsureDbSelectionOnSources(data)))

\* get_all_data_sources
GetAllDataSources(file) == AllDataSourcesOf(file, LoadRaw(file))

\* The first data source whose value under key is val, None when there is none.
FirstWith(sources, key, val) ==
    IF \E i \in 1..Len(sources) : sources[i][key] = val
    THEN sources[Min({i \in 1..Len(sources) : sources[i][key] = val})]
    ELSE NoSource

\* The loop of get_data_source_by_id and get_data_source_by_name over the
\* result r of get_all_data_sources.
Found(r, key, val) == CfgResult(r.file, FirstWith(r.ret, key, val))

\* get_data_source_by_id
GetDataSourceById(file, source_id) == Found(GetAllDataSources(file), "id", source_id)

\* get_data_source_by_name
GetDataSourceByName(file, name) == Found(GetAllDataSources(file), "name", name)

\* r or get_data_source_by_id(id_fallback), r the result of the lookup by name
OrById(r, id_fallback) == IF r.ret # NoSource THEN r ELSE GetDataSourceById(r.file, id_fallback)

\* get_data_source_by_name(name) or get_data_source_by_id(id_fallback)
ByNameOrId(file, name, id_fallback) == OrById(GetDataSourceByName(file, name), id_fallback)

\* The policy get_db_selection makes of the data source it found.
DbSelectionOf(ds) ==
    IF ds # NoSource /\ Get(ds, "db_selection", EmptyDict) # EmptyDict
    THEN Overlay(DefaultDbSelection, ds["db_selection"])
    ELSE DefaultDbSelection

\* get_db_selection, r the result of its lookup
DbSelectionResult(r) == CfgResult(r.file, DbSelectionOf(r.ret))

\* get_db_selection
GetDbSelection(file, source_name) == DbSelectionResult(ByNameOrId(file, source_name, CorinsId))

\* The schema get_schema makes of the data source it found.
SchemaOf(ds, source_name) ==
    IF ds # NoSource /\ Get(ds, "schema", <<>>) # <<>> THEN ds["schema"]
    ELSE IF source_name = CorinsName THEN DefaultCorinsSchema
    ELSE IF source_name = DesignDocName THEN DefaultDesignDocSchema
    ELSE <<>>

IdFallback(source_name) == IF source_name = CorinsName THEN CorinsId ELSE DesignDocId

\* get_schema, r the result of its lookup
SchemaResult(r, source_name) == CfgResult(r.file, SchemaOf(r.ret, source_name))

\* get_schema
GetSchema(file, source_name) ==
    SchemaResult(ByNameOrId(file, source_name, IdFallback(source_name)), source_name)

\* str(uuid.uuid4())[:8]: an id no data source of the file has
GeneratedIds == <<"gen1", "gen2", "gen3", "gen4", "gen5", "gen6", "gen7">>

\* The id generated in a call with the argument source_id: random, so none of
\* the ids in use and not the argument.
NewId(sources, source_id) ==
    GeneratedIds[Min({i \in 1..Len(GeneratedIds) :
                        GeneratedIds[i] \notin Ids(sources) \cup {source_id}})]

\* The data source save_data_source stores.
NewSource(source_id, name, schema, db_sel) ==
    [id |-> source_id, name |-> name, schema |-> schema, db_selection |-> db_sel]

\* A plausible slip: the source of the id is not replaced, the new one is added.
UpdatedSourceAppended(data, i, source_id, name, schema, db_selection) ==
    CfgResult(SaveRaw([data EXCEPT !.data_sources =
                         Append(@, NewSource(source_id, name, schema,
                                    Overlay(Overlay(DefaultDbSelection,
                                                    Get(data.data_sources[i], "db_selection", EmptyDict)),
                                            db_selection)))]),
              source_id)

\* save_data_source where the i-th source has the id: it is replaced, its
\* db_selection the defaults overlaid by the stored one overlaid by the given.
UpdatedSource(data, i, source_id, name, schema, db_selection) ==
    CfgResult(SaveRaw([data EXCEPT !.data_sources[i] =
                         NewSource(source_id, name, schema,
                                   Overlay(Overlay(DefaultDbSelection,
                                                   Get(data.data_sources[i], "db_selection", EmptyDict)),
                                           db_selection))]),
              source_id)

\* save_data_source where no id is given or no source has it: a source with a
\* generated id and the default db_selection is appended.
CreatedSource(data, new_id, name, schema) ==
    CfgResult(SaveRaw([data EXCEPT !.data_sources =
                         Append(@, NewSource(new_id, name, schema, DefaultDbSelection))]),
              new_id)

\* save_data_source, data the dict _load_raw returned
SaveDataSourceTo(data, source_id, name, schema, db_selection) ==
    IF source_id # "" /\ source_id \in Ids(data.data_sources)
    THEN UpdatedSource(data, Min({i \in 1..Len(data.data_sources) :
                                    data.data_sources[i].id = source_id}),
                       source_id, name, schema, db_selection)
    ELSE CreatedSource(data, NewId(data.data_sources, source_id), name, schema)

\* save_data_source; source_id "" stands for None, db_selection {} also for None
SaveDataSource(file, source_id, name, schema, db_selection) ==
    SaveDataSourceTo(LoadRaw(file), source_id, name, schema, db_selection)

\* delete_data_source
DeleteDataSource(file, source_id) ==
    LET sources == LoadRaw(file).data_sources
        kept == SelectSeq(sources, LAMBDA ds : ds.id # source_id)
    IN IF Len(kept) = Len(sources) THEN CfgResult(file, FALSE)
       ELSE CfgResult(SaveRaw([LoadRaw(file) EXCEPT !.data_sources = kept]), TRUE)

----------------------------------------------------------------------------
(* SpecConfig: the registry functions called in any order on a file that is  *)
(* absent, malformed, or left by an earlier version; SpecConfigFresh: the    *)
(* same on a fresh deployment                                                *)

MaxSources == 3

\* A file of an earlier version: the one built-in source, without db_selection.
LegacyFile ==
    CfgJson([data_sources |->
               <<[id |-> CorinsId, name |-> CorinsName, schema |-> DefaultCorinsSchema]>>])

\* The arguments of the calls: "" is the id None; "gen1" is the id of the
\* first source made without an id, and the id of no source before that; the
\* third name is registered by no built-in source; {} is the db_selection None.
SourceIdArgs == {"", CorinsId, DesignDocId, "gen1"}

SourceNames == {CorinsName, DesignDocName, "Mitsumori"}

\* The names sources are saved under: a built-in one and another.
SaveNames == {CorinsName, "Mitsumori"}

SchemaArgs == {<<>>, <<"estimate_no">>}

PolicyArgs == {EmptyDict, [neo4j |-> TRUE]}

ConfigInit ==
    /\ nameSegs = <<>>
    /\ dbSel = DefaultDbSelection
    /\ dbDirParent = ProjectRoot
    /\ cfgFile \in {CfgAbsent, CfgMalformed, LegacyFile}
    /\ StoresInit

ConfigFreshInit == ConfigInit /\ cfgFile = CfgAbsent

\* The record of a call: the function, its arguments and what it returned
\* (under the tag of its type).
CfgOp(kind, id, name, schema, policy, ret) ==
    [kind |-> kind, id |-> id, name |-> name, schema |-> schema, policy |-> policy,
     ret |-> ret, raised |-> FALSE]

Returned(t, v) == [t |-> t, v |-> v]

\* A call that returned r: the file is as the call left it.
Called(kind, id, name, schema, policy, t, r) ==
    /\ cfgFile' = r.file
    /\ lastOp' = CfgOp(kind, id, name, schema, policy, Returned(t, r.ret))
    /\ UNCHANGED <<nameSegs, graph, dbSel, regVars, dbDirParent, saveArgs>>

CGetAllDataSources ==
    Called("get_all_data_sources", "", "", <<>>, EmptyDict, "sources",
           GetAllDataSources(cfgFile))

CGetSchema ==
    \E name \in SourceNames :
        Called("get_schema", "", name, <<>>, EmptyDict, "schema", GetSchema(cfgFile, name))

CGetDbSelection ==
    \E name \in SourceNames :
        Called("get_db_selection", "", name, <<>>, EmptyDict, "policy",
               GetDbSelection(cfgFile, name))

\* The list of the file is kept to MaxSources sources.
Fits(r) == Len(r.file.data.data_sources) <= MaxSources

CSaveDataSource ==
    \E id \in SourceIdArgs, name \in SaveNames, schema \in SchemaArgs, policy \in PolicyArgs :
        /\ Fits(SaveDataSource(cfgFile, id, name, schema, policy))
        /\ Called("save_data_source", id, name, schema, policy, "id",
                  SaveDataSource(cfgFile, id, name, schema, policy))

CDeleteDataSource ==
    \E id \in SourceIdArgs \ {""} :
        Called("delete_data_source", id, "", <<>>, EmptyDict, "bool",
               DeleteDataSource(cfgFile, id))

ConfigNext ==
    \/ CGetAllDataSources
    \/ CGetSchema
    \/ CGetDbSelection
    \/ CSaveDataSource
    \/ CDeleteDataSource

SpecConfig == ConfigInit /\ [][ConfigNext]_vars

SpecConfigFresh == ConfigFreshInit /\ [][ConfigNext]_vars

(* Properties of the registry *)

\* The data sources of a file, and the one registered under a name.
SourcesIn(file) == LoadRaw(file).data_sources

NamedIn(file, name) == FirstWith(SourcesIn(file), "name", name)

\* C13: get_schema(name) does not fail and returns the stored schema of the
\* source registered under the name if it has fields; otherwise the built-in
\* default when the name is one of the two built-in names; otherwise the empty
\* schema.
C13_SchemaByName ==
    [][lastOp'.kind = "get_schema" =>
          /\ ~lastOp'.raised
          /\ lastOp'.ret.v =
                IF NamedIn(cfgFile', lastOp'.name) # NoSource
                   /\ NamedIn(cfgFile', lastOp'.name).schema # <<>>
                THEN NamedIn(cfgFile', lastOp'.name).schema
                ELSE IF lastOp'.name = CorinsName THEN DefaultCorinsSchema
                ELSE IF lastOp'.name = DesignDocName THEN DefaultDesignDocSchema
                ELSE <<>>]_vars

\* The source of an id in a file, and the db_selection stored with it (none
\* when no source has the id).
WithId(file, id) == FirstWith(SourcesIn(file), "id", id)

StoredPolicy(file, id) ==
    IF id = "" \/ WithId(file, id) = NoSource THEN EmptyDict
    ELSE Get(WithId(file, id), "db_selection", EmptyDict)

\* C14: after save_data_source(id or None, name, ..., db_selection = P) the
\* policy stored with the saved source is the defaults, overlaid by the fields
\* stored with it before (none when it is newly made), overlaid by P; so when
\* the source is updated and so when it is made.
C14_PolicyMergedOnSave ==
    [][lastOp'.kind = "save_data_source" =>
          StoredPolicy(cfgFile', lastOp'.ret.v) =
             Overlay(Overlay(DefaultDbSelection, StoredPolicy(cfgFile, lastOp'.id)),
                     lastOp'.policy)]_vars

\* The positions of the sources of an id.
PositionsOf(sources, id) == {i \in 1..Len(sources) : sources[i].id = id}

\* Position i of after holds the saved source; the other positions of after
\* hold what before holds there.
SavedAt(before, after, i, id, name, schema) ==
    /\ PositionsOf(after, id) = {i}
    /\ after[i].name = name /\ after[i].schema = schema
    /\ \A j \in 1..Len(before) : j # i => after[j] = before[j]

\* C15 as stated: after save_data_source with an id that is not None the
\* registry holds exactly one source of that id, with the given name and
\* schema, and the call returns that id; an id is generated only when the id is
\* None; every other source is as before.
C15_UpsertById ==
    [][lastOp'.kind = "save_data_source" =>
          IF lastOp'.id # ""
          THEN /\ lastOp'.ret.v = lastOp'.id
               /\ \E i \in 1..Len(SourcesIn(cfgFile')) :
                     /\ SavedAt(SourcesIn(cfgFile), SourcesIn(cfgFile'), i, lastOp'.id,
                                lastOp'.name, lastOp'.schema)
                     /\ Len(SourcesIn(cfgFile')) = Len(SourcesIn(cfgFile)) \/ i = Len(SourcesIn(cfgFile')) 
          ELSE /\ lastOp'.ret.v \notin Ids(SourcesIn(cfgFile))
               /\ SavedAt(SourcesIn(cfgFile), SourcesIn(cfgFile'), Len(SourcesIn(cfgFile)) + 1,
                          lastOp'.ret.v, lastOp'.name, lastOp'.schema)]_vars

\* C15, amended: after save_data_source with the id of a stored source the
\* registry holds exactly one source of that id, in the place of the old one,
\* with the given name and schema, and the call returns that id; with the id
\* None or an id no stored source has, a source with a generated id (not the
\* given one, and of no stored source) is appended with the given name and
\* schema, and the call returns the generated id; every other source is as
\* before.
C15_UpsertByStoredId ==
    [][lastOp'.kind = "save_data_source" =>
          IF lastOp'.id # "" /\ lastOp'.id \in Ids(SourcesIn(cfgFile))
          THEN /\ lastOp'.ret.v = lastOp'.id
               /\ Len(SourcesIn(cfgFile')) = Len(SourcesIn(cfgFile))
               /\ \E i \in PositionsOf(SourcesIn(cfgFile), lastOp'.id) :
                     SavedAt(SourcesIn(cfgFile), SourcesIn(cfgFile'), i, lastOp'.id,
                             lastOp'.name, lastOp'.schema)
          ELSE /\ lastOp'.ret.v \notin Ids(SourcesIn(cfgFile)) \cup {lastOp'.id}
               /\ Len(SourcesIn(cfgFile')) = Len(SourcesIn(cfgFile)) + 1
               /\ SavedAt(SourcesIn(cfgFile), SourcesIn(cfgFile'), Len(SourcesIn(cfgFile)) + 1,
                          lastOp'.ret.v, lastOp'.name, lastOp'.schema)]_vars

\* The built-in order-record source was saved under its id with another name
\* and schema: it is the one source of that id, before two others.
C15_Witness ==
    /\ lastOp.kind = "save_data_source"
    /\ lastOp.id = CorinsId /\ lastOp.ret.v = CorinsId
    /\ lastOp.name = "Mitsumori" /\ lastOp.schema = <<"estimate_no">>
    /\ Len(SourcesIn(cfgFile)) = 3
    /\ PositionsOf(SourcesIn(cfgFile), CorinsId) = {1}
    /\ SourcesIn(cfgFile)[1].name = "Mitsumori"
    /\ SourcesIn(cfgFile)[1].schema = <<"estimate_no">>

\* C16: get_db_selection(name) returns, field by field, the value stored with
\* the source of that name where one is stored and the default elsewhere; for
\* a name without stored policy exactly the defaults, whatever the other
\* sources hold.
C16_PolicyByName ==
    [][lastOp'.kind = "get_db_selection" =>
          lastOp'.ret.v =
             Overlay(DefaultDbSelection,
                     IF NamedIn(cfgFile', lastOp'.name) = NoSource THEN EmptyDict
                     ELSE Get(NamedIn(cfgFile', lastOp'.name), "db_selection", EmptyDict))]_vars

\* A list holds a built-in source: one of its id or of its name.
Holds(sources, builtin) ==
    \E i \in 1..Len(sources) :
        sources[i].id = builtin.id \/ sources[i].name = builtin.name

\* C17 (under SpecConfigFresh, where the file is absent at first): whatever
\* registry calls came before, every get_all_data_sources returns a list
\* holding both built-in sources, the file holds that list after it, and a
\* second call would return the same list and leave the file as it is.
C17_DefaultsEnsuredOnRead ==
    [][lastOp'.kind = "get_all_data_sources" =>
          /\ Holds(lastOp'.ret.v, CorinsSource) /\ Holds(lastOp'.ret.v, DesignDocSource)
          /\ SourcesIn(cfgFile') = lastOp'.ret.v
          /\ GetAllDataSources(cfgFile') = CfgResult(cfgFile', lastOp'.ret.v)]_vars

\* C18: a registry call that finds the file malformed fails, and the file is
\* left as it is.
C18_MalformedFileFails ==
    [][(cfgFile = CfgMalformed /\ lastOp' # lastOp) =>
          /\ lastOp'.raised
          /\ cfgFile' = cfgFile]_vars

----------------------------------------------------------------------------
(* SpecFiscal: _extract_fiscal_year on every date of up to MaxDateSegs       *)
(* segments.  Process 1 holds the label the call returns.                    *)

MaxDateSegs == 6

DateSegments ==
    { <<"2", "0", "2", "4">>, <<"-">>, <<"/">>, <<"0">>, <<"2">>, <<"F5">>,
      <<"Rei", "Wa">>, <<"Hei", "Sei", "3", "0", "Nen">>, <<"Nen">> }

DateText == Flatten(nameSegs)

\* Python's int is unbounded; the dates under test hold no run of more than
\* MaxDigits digits, so that every number read from them fits TLC's integers.
MaxDigits == 9

DigitRunsFit(s) ==
    \A i \in 1..(Len(s) - MaxDigits) : {k \in i..(i + MaxDigits) : ~IsDigit(s[k])} # {}

FiscalInit ==
    nameSegs = <<>> /\ dbSel = DefaultDbSelection /\ dbDirParent = ProjectRoot /\ cfgFile = CfgAbsent
    /\ StoresInit

\* _extract_fiscal_year is called for the empty date or for the date extended by
\* one segment.
FExtractFiscalYear ==
    /\ Len(nameSegs) < MaxDateSegs
    /\ \E seg \in (IF nameSegs = <<>> THEN DateSegments \cup {<<>>} ELSE DateSegments) :
          /\ DigitRunsFit(Flatten(Append(nameSegs, seg)))
          /\ nameSegs' = Append(nameSegs, seg)
          /\ reg' = [reg EXCEPT ![1].result =
                        PyStr(ExtractFiscalYear(Flatten(Append(nameSegs, seg))))]
    /\ UNCHANGED <<graph, lastOp, dbSel, otherVars, rows, nextId, folders, regCount, storeVer,
                   prevAlloc, faults>>

FiscalNext == FExtractFiscalYear

SpecFiscal == FiscalInit /\ [][FiscalNext]_vars

\* The occurrences of a numeric year and month in s: four digits, "-" or "/",
\* and the one or two digits that follow, as the pair <<year, month>>.
YearMonths(s) ==
    {<<CharsToInt(SubSeq(s, i, i + 3)), CharsToInt(SubSeq(s, i + 5, j))>> :
        <<i, j>> \in {ij \in (1..Len(s)) \X (1..Len(s)) :
            /\ ij[2] \in {ij[1] + 5, ij[1] + 6}
            /\ \A k \in ij[1]..(ij[1] + 3) : IsDigit(s[k])
            /\ s[ij[1] + 4] \in {"-", "/"}
            /\ \A k \in (ij[1] + 5)..ij[2] : IsDigit(s[k])
            /\ \/ ij[2] = ij[1] + 6
               \/ ij[2] = Len(s)
               \/ ~IsDigit(s[ij[2] + 1])}}

\* The years of the occurrences of the era year  c1 c2 <digits> Nen  in s.
EraYears(s, c1, c2) ==
    {CharsToInt(SubSeq(s, i + 2, j - 1)) :
        <<i, j>> \in {ij \in (1..Len(s)) \X (1..Len(s)) :
            /\ ij[2] > ij[1] + 2
            /\ s[ij[1]] = c1 /\ s[ij[1] + 1] = c2
            /\ \A k \in (ij[1] + 2)..(ij[2] - 1) : IsDigit(s[k])
            /\ s[ij[2]] = "Nen"}}

\* "<n>年度"
FiscalLabel(n) == IntToChars(n) \o <<"Nen", "Do">>

\* C21: for a date with a numeric year Y and month M the label is of Y - 1 when
\* M < 4 and of Y otherwise; else for a current-era year n it is of 2018 + n;
\* else for a previous-era year n it is of 1988 + n; else (empty or unparseable
\* date) it is the empty string.
C21_FiscalYearLabel ==
    nameSegs # <<>> =>
        LET label == reg[1].result.v
            ym == YearMonths(DateText)
            reiwa == EraYears(DateText, "Rei", "Wa")
            heisei == EraYears(DateText, "Hei", "Sei")
        IN IF ym # {}
           THEN \E p \in ym : label = FiscalLabel(IF p[2] < 4 THEN p[1] - 1 ELSE p[1])
           ELSE IF reiwa # {}
           THEN \E n \in reiwa : label = FiscalLabel(2018 + n)
           ELSE IF heisei # {}
           THEN \E n \in heisei : label = FiscalLabel(1988 + n)
           ELSE label = <<>>

\* A current-era year followed by a numeric date of February 2024: the label
\* is of fiscal 2023.
C21_Witness ==
    /\ nameSegs = << <<"Rei", "Wa">>, <<"2">>, <<"Nen">>,
                     <<"2", "0", "2", "4">>, <<"-">>, <<"2">> >>
    /\ reg[1].result = PyStr(<<"2", "0", "2", "3", "Nen", "Do">>)

----------------------------------------------------------------------------
(* SpecRegion: _extract_region_parts on every address of up to MaxLocSegs    *)
(* segments.  Process 1 holds the list the call returns.                     *)

MaxLocSegs == 5

LocSegments ==
    { <<"x">>, <<"Ken">>, <<"To">>, <<"Shi">>, <<"Ku">>, <<"Hok", "Kai", "Dou">>,
      <<"SP">>, <<"Touten">> }

LocText == Flatten(nameSegs)

RegionInit ==
    nameSegs = <<>> /\ dbSel = DefaultDbSelection /\ dbDirParent = ProjectRoot /\ cfgFile = CfgAbsent
    /\ StoresInit

StrList(parts) == PyList([i \in 1..Len(parts) |-> PyStr(parts[i])])

\* _extract_region_parts is called for the empty address or for the address
\* extended by one segment.
LExtractRegionParts ==
    /\ Len(nameSegs) < MaxLocSegs
    /\ \E seg \in (IF nameSegs = <<>> THEN LocSegments \cup {<<>>} ELSE LocSegments) :
          /\ nameSegs' = Append(nameSegs, seg)
          /\ reg' = [reg EXCEPT ![1].result =
                        StrList(ExtractRegionParts(Flatten(Append(nameSegs, seg))))]
    /\ UNCHANGED <<graph, lastOp, dbSel, otherVars, rows, nextId, folders, regCount, storeVer,
                   prevAlloc, faults>>

RegionNext == LExtractRegionParts

SpecRegion == RegionInit /\ [][RegionNext]_vars

Hokkaido == <<"Hok", "Kai", "Dou">>

\* A prefecture token: Hokkaido, or two or three characters and a prefecture
\* suffix.
IsPrefToken(t) ==
    \/ t = Hokkaido
    \/ Len(t) \in {3, 4} /\ t[Len(t)] \in {"To", "Fu", "Ken"}

\* s holds a prefecture token somewhere.
HasPrefPattern(s) ==
    {ij \in (1..Len(s)) \X (1..Len(s)) :
        /\ ij[1] <= ij[2]
        /\ IsPrefToken(SubSeq(s, ij[1], ij[2]))
        /\ \A k \in ij[1]..ij[2] : s[k] # "NL"} # {}

\* A run of n ordinary characters.
Plain(n) == [i \in 1..n |-> "x"]

\* C22: the splitter returns at most two tokens; none when the address holds no
\* prefecture pattern; the first token returned is a prefecture token and a
\* second one ends with a city suffix, so a city token never comes without a
\* prefecture token before it; "X-Ken Y-Shi" gives the two tokens X-Ken and
\* Y-Shi and "X-Ken" alone gives X-Ken.
C22_RegionParts ==
    nameSegs # <<>> =>
        LET parts == reg[1].result.v
        IN /\ Len(parts) <= 2
           /\ ~HasPrefPattern(LocText) => parts = <<>>
           /\ Len(parts) >= 1 => IsPrefToken(parts[1].v)
           /\ Len(parts) = 2 =>
                 parts[2].v[Len(parts[2].v)] \in {"Shi", "Ku", "Machi", "Mura", "Gun"}
           /\ \A n \in {2, 3} :
                 /\ LocText = Plain(n) \o <<"Ken">>
                       => parts = <<PyStr(Plain(n) \o <<"Ken">>)>>
                 /\ \A m \in 1..2 :
                       LocText = Plain(n) \o <<"Ken">> \o Plain(m) \o <<"Shi">>
                          => parts = <<PyStr(Plain(n) \o <<"Ken">>),
                                       PyStr(Plain(m) \o <<"Shi">>)>>

----------------------------------------------------------------------------
(* SpecOrch: register_project_from_corins called with each save_to_neo4j      *)
(* argument, for an upload that can be saved and one whose record cannot be   *)
(* bound, with deletions in between.                                          *)

\* save_to_neo4j: bool | None
OrchArgs == {"None", "True", "False"}

OrchUploads ==
    {[text |-> PyStr(<<"Corins">>), api_key |-> TRUE, response |-> JsonDumps(PyDict(d))] :
        d \in {DataShared, DataUnbindable}}

OrchNext == \/ \E p \in Procs : RCall(p, OrchUploads, OrchArgs, MaxRegs)
            \/ \E p \in Procs : RAlloc(p)
            \/ \E p \in Procs : RFolder(p)
            \/ \E p \in Procs : RSave(p)
            \/ \E p \in Procs : RFinish(p)
            \/ RDelete

SpecOrch == RegInit /\ [][OrchNext]_vars

Calls(p) == reg[p].pc \in {"idle", "returned", "raised"} /\ reg'[p] # reg[p]

\* The graph upsert of a registration is due: the saved row can be read back
\* and the argument, or with no argument the policy, asks for the graph.
UpsertDue(p) ==
    /\ \E r \in rows : r["id"] = PyInt(reg[p].pk)
    /\ \/ reg[p].save_to_neo4j = "True"
       \/ reg[p].save_to_neo4j = "None" /\ dbSel.neo4j

\* C23: a call's code is set by its one allocation step and by nothing else
\* until the next call; the graph upsert is attempted only by a call whose row
\* is inserted, and exactly when the row can be read back and save_to_neo4j is
\* True, or is None with the graph enabled in the policy; a call that does not
\* attempt it, or whose relational save raises, leaves the graph as it is.
C23_OrchestrationGating ==
    [][\A p \in Procs :
          /\ reg'[p].code # reg[p].code => Allocates(p) \/ Calls(p)
          /\ Allocates(p) => reg[p].code = NoCode /\ reg'[p].code # NoCode
          /\ (reg'[p].graphCall.called /\ ~reg[p].graphCall.called) =>
                reg[p].pc = "inserted" /\ reg[p].pk # 0
          /\ Finishes(p) =>
                /\ reg'[p].graphCall.called <=> UpsertDue(p)
                /\ ~UpsertDue(p) => graph' = graph
          /\ (reg[p].pc = "foldered" /\ reg'[p].pc = "raised") =>
                /\ graph' = graph
                /\ ~reg'[p].graphCall.called]_vars

\* A call with save_to_neo4j True has mirrored its project although the policy
\* does not name the graph, after an earlier call raised in its relational save.
C23_Witness ==
    \E p \in Procs :
        /\ reg[p].pc = "returned"
        /\ reg[p].save_to_neo4j = "True"
        /\ ~dbSel.neo4j
        /\ reg[p].graphCall.called
        /\ reg[p].graphCall.ret
        /\ ProjectNodes(graph, reg[p].pk) # {}
        /\ \E q \in Procs : reg[q].pc = "raised" /\ reg[q].raisedAt = "save"

----------------------------------------------------------------------------
(* Resource release (SpecGraph) *)

\* C24: no graph operation returns with the driver it opened still open.
C24_DriverReleased == ~lastOp.leak

----------------------------------------------------------------------------
(* The Project node (SpecGraph) *)

\* The project the last save was called with.
SavedProject ==
    IF lastOp.pid = NoId THEN Extractions[lastOp.input]
    ELSE ProjectDictOf(Extractions[lastOp.input], lastOp.pid, lastOp.mode)

\* The properties of the Project nodes of pid.
ProjectProps(G, pid) == {G.nodes[n] : n \in ProjectNodes(G, pid)}

\* C25: the graph holds at most one Project node per sqlite_id; after a
\* successful save the node's name, corins_id, contract_amount, dates, location
\* and summary are those of the record just saved, its code is the project's,
\* and all its properties are those the same save writes on an empty graph.
C25_OneProjectLastWriteWins ==
    /\ \A pid \in ProjectIds : Cardinality(ProjectNodes(graph, pid)) <= 1
    /\ (lastOp.kind = "save" /\ lastOp.ret) =>
          LET rec == Extractions[lastOp.input]
              fresh == SaveProjectToNeo4j(EmptyGraph, SavedProject, "up", 0).graph
          IN /\ ProjectProps(graph, lastOp.pid) = ProjectProps(fresh, lastOp.pid)
             /\ \A props \in ProjectProps(graph, lastOp.pid) :
                   /\ props["name"] = rec["project_name"]
                   /\ props["corins_id"] = rec["corins_id"]
                   /\ props["contract_amount"] = rec["contract_amount"]
                   /\ props["start_date"] = rec["start_date"]
                   /\ props["end_date"] = rec["end_date"]
                   /\ props["location"] = rec["location"]
                   /\ props["summary"] = rec["summary"]
                   /\ props["project_code"] = SavedProject["project_code"]

\* Project 1 has been saved from the shorter record after it was saved from the
\* full one (the edge to the full record's contractor is still there): its
\* node carries the shorter record's name and no summary.
C25_Witness ==
    /\ lastOp.kind = "save" /\ lastOp.ret /\ lastOp.pid = 1 /\ lastOp.input = 2
    /\ \E e \in graph.edges :
          e.src \in ProjectNodes(graph, 1) /\ e.dst.label = "Contractor"
             /\ e.dst.key = Str1("ContractorA").v
    /\ \A props \in ProjectProps(graph, 1) :
          props["name"] = PyStr(NameReiwa4Wide) /\ props["summary"] = PyNone

----------------------------------------------------------------------------
(* SpecHier: project 1 is saved to the graph again and again, each time with  *)
(* its address extended by one segment, so that every address of up to        *)
(* MaxAddrSegs segments is saved on the graph its prefixes left.              *)

MaxAddrSegs == 5

AddrSegments == { <<"SP">>, <<"x", "x">>, <<"Ken">>, <<"x", "Shi">>, <<"To">> }

HierInit == GraphInit /\ dbSel.sqlite_mode = "both"

\* The record of project 1 with the address under test.
RecordAt(address) == [DataShared EXCEPT !.location = PyStr(address)]

HSaveProject ==
    /\ Len(nameSegs) < MaxAddrSegs
    /\ \E seg \in AddrSegments :
          LET project == ProjectDictOf(RecordAt(Flatten(Append(nameSegs, seg))), 1,
                                       dbSel.sqlite_mode)
              r == SaveProjectToNeo4j(graph, project, "up", 0)
          IN /\ nameSegs' = Append(nameSegs, seg)
             /\ graph' = r.graph
             /\ lastOp' = OpRecord("save", 1, Len(nameSegs) + 1, dbSel.sqlite_mode, "up", r)
    /\ UNCHANGED <<dbSel, otherVars, regVars>>

HierNext == HSaveProject

SpecHier == HierInit /\ [][HierNext]_vars

\* The edges of G of a type from a node of srcs to a Region node named key.
RegionEdges(G, srcs, type, key) ==
    {e \in G.edges : e.src \in srcs /\ e.type = type
                      /\ e.dst.label = "Region" /\ e.dst.key = key}

\* The names of the Region nodes of G2 that G does not hold.
NewRegions(G, G2) == {n.key : n \in {x \in NodeIds(G2) \ NodeIds(G) : x.label = "Region"}}

NewEdges(G, G2, type) == {e \in G2.edges \ G.edges : e.type = type}

\* The save leaves one Region node named key with one LOCATED_IN edge from the
\* project to it.
Located(G, pid, key) ==
    /\ Cardinality(MatchNodes(G, "Region", key)) = 1
    /\ Cardinality(RegionEdges(G, ProjectNodes(G, pid), "LOCATED_IN", key)) = 1

\* C26: a successful save of a project whose address yields a prefecture and a
\* city token leaves one Region node per token, each with one LOCATED_IN edge
\* from the Project, and exactly one PART_OF edge from the city Region to the
\* prefecture Region, none the other way; the Region nodes it creates are those
\* of the tokens.  When the address yields a prefecture token only, it leaves
\* that Region node with its LOCATED_IN edge, creates no other Region node and
\* no other LOCATED_IN edge, and creates no PART_OF edge.
C26_RegionHierarchy ==
    [][lastOp'.ret =>
          LET parts == ExtractRegionParts(Flatten(nameSegs'))
          IN /\ Len(parts) = 2 =>
                   /\ Located(graph', 1, parts[1])
                   /\ Located(graph', 1, parts[2])
                   /\ NewRegions(graph, graph') \subseteq {parts[1], parts[2]}
                   /\ Cardinality(RegionEdges(graph', MatchNodes(graph', "Region", parts[2]),
                                              "PART_OF", parts[1])) = 1
                   /\ RegionEdges(graph', MatchNodes(graph', "Region", parts[1]),
                                  "PART_OF", parts[2]) = {}
             /\ (Len(parts) = 1 /\ IsPrefToken(parts[1])) =>
                   /\ Located(graph', 1, parts[1])
                   /\ NewRegions(graph, graph') \subseteq {parts[1]}
                   /\ \A e \in NewEdges(graph, graph', "LOCATED_IN") : e.dst.key = parts[1]
                   /\ NewEdges(graph, graph', "PART_OF") = {}]_vars

----------------------------------------------------------------------------
(* SpecSeq: one session registers and deletes, one operation after another.  *)

MaxSeqRegs == 3

\* Works of one fiscal year.
SeqUploads ==
    {[text |-> PyStr(<<"Corins">>), api_key |-> TRUE, response |-> JsonDumps(PyDict(d))] :
        d \in {DataShared, DataShared2}}

\* No registration is under way.
Quiet == \A p \in Procs : reg[p].pc \in {"idle", "returned", "raised"}

SeqNext == \/ RCall(1, SeqUploads, SaveToNeo4jArgs, MaxSeqRegs)
           \/ RAlloc(1)
           \/ RFolder(1)
           \/ RSave(1)
           \/ RFinish(1)
           \/ (Quiet /\ RDelete)

SpecSeq == RegInit /\ [][SeqNext]_vars

\* C27: no two rows stored at the same time hold the same project code.
C27_CodesUniqueSequentially ==
    \A r1 \in rows : \A r2 \in rows :
        r1["id"] # r2["id"] => r1["project_code"] # r2["project_code"]

\* The edges from the Project node of pid to dimension nodes, each as its type,
\* its target and its role.
DimensionEdges(G, pid) ==
    {[type |-> e.type, label |-> e.dst.label, key |-> e.dst.key, role |-> e.role] :
        e \in {x \in G.edges : x.src \in ProjectNodes(G, pid) /\ x.type # "HAS_DESIGN_DOC"}}

\* C28: after a successful save the edges from the Project node to dimension
\* nodes are exactly those the saved record gives rise to (those the same save
\* creates on an empty graph): no edge of an earlier save to a dimension the
\* record no longer names remains.
C28_EdgesReflectLatest ==
    (lastOp.kind = "save" /\ lastOp.ret) =>
        DimensionEdges(graph, lastOp.pid)
            = DimensionEdges(SaveProjectToNeo4j(EmptyGraph, SavedProject, "up", 0).graph,
                             lastOp.pid)

\* The relationship fields of a record besides client, contractor and
\* engineers, each with the type of the edge it gives rise to.
RelationshipFields ==
    {<<"work_types", "HAS_WORK_TYPE">>, <<"field", "IN_FIELD">>,
     <<"location", "LOCATED_IN">>, <<"start_date", "IN_FISCAL_YEAR">>,
     <<"target_route_name", "ON_ROUTE">>, <<"contract_method", "CONTRACTED_BY">>,
     <<"construction_permit_type", "REQUIRES_PERMIT">>,
     <<"bid_qualification_category", "IN_BID_CATEGORY">>,
     <<"construction_area", "IN_AREA_TYPE">>, <<"construction_methods", "USES_METHOD">>}

\* The record has a null relationship field.
HasNullField(rec) ==
    \E f \in {"client_name", "contractor_name", "engineers"} \cup {p[1] : p \in RelationshipFields} :
        f \in DOMAIN rec /\ rec[f] = PyNone

\* C29: a save, with the store reachable, of a stored project whose record has
\* a null relationship field returns True, and the Project has an edge of the
\* type of every other relationship field the record populates.
C29_NullFieldsDoNotTruncate ==
    (/\ lastOp.kind = "save" /\ lastOp.driver /\ lastOp.pid # NoId
     /\ HasNullField(Extractions[lastOp.input])) =>
        /\ lastOp.ret
        /\ \A p \in RelationshipFields :
              Truthy(Get(NormalizeProjectData(SavedProject), p[1], EmptyStr)) =>
                  \E e \in DimensionEdges(graph, lastOp.pid) :
                      e.type = p[2] /\ e.label \notin {"Client", "Contractor", "Engineer"}


----------------------------------------------------------------------------
(* SpecMirror: registrations from the past-works tab, the delete button of a *)
(* project, the delete-all button of a tab, and the graph flag of the order  *)
(* records' db_selection changed in between.                                 *)

MaxMirrorRegs == 2

\* save_data_source of the order-record source with db_selection {neo4j: flag}:
\* the stored selection is overlaid with it, and get_db_selection returns the
\* result from then on
RSetPolicy ==
    /\ \E flag \in BOOLEAN : flag # dbSel.neo4j /\ dbSel' = [dbSel EXCEPT !.neo4j = flag]
    /\ UNCHANGED <<nameSegs, graph, lastOp, otherVars, regVars>>

\* app.py, the loop of the delete-all button over the ids of a tab in the order
\* of the listing: delete_project and, when the selection read before the loop
\* names the graph, delete_project_from_neo4j; the call for id bad meets the
\* circumstances c, the others find the store up
RECURSIVE DeleteAll(_, _, _, _, _)
DeleteAll(st, ids, mirror, bad, c) ==
    IF ids = {} THEN st
    ELSE LET id == CHOOSE i \in ids : \A j \in ids : i <= j
             row == CHOOSE r \in st.rows : r["id"] = PyInt(id)
             d == DeleteProject(st.rows, st.folders, id, dbDirParent)
             g == IF ~mirror THEN st.graph
                  ELSE IF id = bad
                       THEN DeleteProjectFromNeo4j(st.graph, id, c.conn, c.failAt).graph
                       ELSE DeleteProjectFromNeo4j(st.graph, id, "up", 0).graph
             next == [rows |-> d.rows, folders |-> d.folders, graph |-> g,
                      log |-> NoteStoreChange(st.log, row["project_code"].v, FALSE)]
         IN DeleteAll(next, ids \ {id}, mirror, bad, c)

\* app.py, the delete-all button of a tab that lists projects
RDeleteAll ==
    \E p \in Procs :
        LET ids == {r["id"].v : r \in {x \in rows : x["project_type"] = TabOf(p)}}
        IN /\ ids # {}
           /\ \E bad \in ids : \E c \in GraphCalls(Len(DeleteStatements(bad))) :
                 LET st == DeleteAll([rows |-> rows, folders |-> folders, graph |-> graph,
                                      log |-> prevAlloc], ids, dbSel.neo4j, bad, c)
                 IN /\ rows' = st.rows
                    /\ folders' = st.folders
                    /\ graph' = st.graph
                    /\ prevAlloc' = st.log
                    /\ storeVer' = storeVer + Cardinality(ids)
                    /\ faults' = IF dbSel.neo4j /\ IsFault(c.conn, c.failAt)
                                 THEN faults + 1 ELSE faults
           /\ UNCHANGED <<nameSegs, lastOp, dbSel, otherVars, nextId, reg, regCount>>

MirrorNext == \/ RCall(1, SeqUploads, SaveToNeo4jArgs, MaxMirrorRegs)
              \/ RAlloc(1)
              \/ RFolder(1)
              \/ RSave(1)
              \/ RFinish(1)
              \/ RDelete
              \/ RDeleteAll
              \/ RSetPolicy

SpecMirror == RegInit /\ [][MirrorNext]_vars

\* The ids the Project nodes of G are keyed by.
MirroredKeys(G) == {n.key : n \in {x \in NodeIds(G) : x.label = "Project"}}

\* C30: as long as no graph call has met an unreachable or failing store, every
\* Project node of the graph is keyed by the id of a stored project: a project
\* mirrored at registration and deleted by a delete flow leaves no Project
\* node, also when the graph flag of the db_selection was changed in between.
C30_MirrorFollowsStore ==
    faults = 0 => \A k \in MirroredKeys(graph) : \E r \in rows : ProjectKey(r["id"].v) = k

====
